---- MODULE Spec2Model ----
(***************************************************************************)
(* The recording catalog (lib/server/recordings), the render handler       *)
(* (POST /api/process), the DELETE, listing and retrieval handlers and the *)
(* retention sweep of graba, as one state machine.  Every await of the     *)
(* source that is followed by a side effect is one step, so that handlers  *)
(* interleave exactly where the Node event loop lets them.                 *)
(*                                                                         *)
(* Faults: a stage of the render (mkdir, writeFile, ffmpeg, rm -f), and    *)
(* the write-then-rename of saveRecordings, may fail.  The index file may  *)
(* become unparsable/unreadable or missing.  Recursive forced removal of   *)
(* a directory (rm -rf, rm {recursive, force}) is taken to succeed, but    *)
(* for SpecRm.                                                             *)
(*                                                                         *)
(* Spec runs the operations one at a time, SpecRequests runs renders with  *)
(* every request, SpecRace interleaves the handlers at their awaits.       *)
(* SpecDuck runs two renders that differ in duckSystemAudio side by side,  *)
(* SpecFresh starts without index file, SpecDelete interleaves DELETE      *)
(* requests with passes, SpecList runs listing requests, SpecRm lets the   *)
(* removal of a directory fail in deleteRecording, SpecGet runs download   *)
(* and streaming requests.  SpecReload damages the index file between the  *)
(* two loads of a pass, SpecOrphan puts a plain file beside the recording  *)
(* directories, SpecShape puts JSON of another shape into the index file,  *)
(* SpecLive runs the hourly passes beside renders under weak fairness.     *)
(*                                                                         *)
(* The recorder component of the client (its microphone preview) is the    *)
(* variable preview: an event handler or the continuation of an await is   *)
(* one step, and the $effects it schedules run in a step of their own      *)
(* before any other event.  SpecPreview runs the preview with its races,   *)
(* SpecChain runs it with every setting of the effects, SpecRecord with    *)
(* the start of a recording.                                               *)
(***************************************************************************)
EXTENDS Integers, Sequences, FiniteSets, TLC

\* ---------------------------------------------------------------- bounds
MaxRenders == 2
\* How many small steps the clock takes from the start and from one retention
\* period after it.
MaxTicks == 1
\* The small step of the clock, in ms.
SECOND_MS == 1000

\* The largest track file, in bytes.
MaxSize == 3

\* The microphone streams that are live or awaited at a time.
MaxStreams == 2

\* ------------------------------------------------------------- constants
RETENTION_MS == 7 * 24 * 60 * 60 * 1000
MS_PER_DAY == 24 * 60 * 60 * 1000

Ids == 1..MaxRenders
Formats == {"mp3", "aac", "opus"}
Durations == {0, 90}
RoleOrder == <<"system", "mic", "mixed">>
RoleSet == {"system", "mic", "mixed"}

\* ------------------------------------------------------- pure functions
\* Date.toISOString / new Date(iso): the calendar day and the time of day.
ToISOString(t) == [day |-> t \div MS_PER_DAY, ms |-> t % MS_PER_DAY]
DateParse(iso) == iso.day * MS_PER_DAY + iso.ms

Ext(format) == IF format = "aac" THEN "m4a" ELSE format
TrackFile(track, format) == <<track, Ext(format)>>
SystemInput == <<"system_input", "webm">>
MicInput == <<"mic_input", "webm">>

\* Variant: opus is encoded at half the bit rate.
FORMAT_CODECSOpusLow(format) ==
    CASE format = "mp3" -> <<"libmp3lame", 320>>
      [] format = "aac" -> <<"aac", 256>>
      [] format = "opus" -> <<"libopus", 128>>

FORMAT_CODECS(format) ==
    CASE format = "mp3" -> <<"libmp3lame", 320>>
      [] format = "aac" -> <<"aac", 256>>
      [] format = "opus" -> <<"libopus", 256>>

EmptyTracks == [r \in {} |-> <<>>]

\* The keys of tracks in insertion order (system, mic, mixed).
TrackPairs(tracks) ==
    LET present == SelectSeq(RoleOrder, LAMBDA r : r \in DOMAIN tracks)
    IN [i \in 1..Len(present) |-> <<present[i], tracks[present[i]]>>]

TracksOf(pairs) ==
    [r \in {pairs[i][1] : i \in 1..Len(pairs)} |->
        pairs[CHOOSE i \in 1..Len(pairs) : pairs[i][1] = r][2]]

\* JSON.stringify / JSON.parse of the index: one tuple of values per entry,
\* in the key order of the Recording literal.
StringifyRecording(r) ==
    <<r.id, r.createdAt, r.expiresAt, r.duration, r.hasMic, r.hasSystemAudio,
      r.format, TrackPairs(r.tracks)>>
ParseRecording(t) ==
    [id |-> t[1], createdAt |-> t[2], expiresAt |-> t[3], duration |-> t[4],
     hasMic |-> t[5], hasSystemAudio |-> t[6], format |-> t[7],
     tracks |-> TracksOf(t[8])]
JSONStringify(index) == [i \in 1..Len(index) |-> StringifyRecording(index[i])]
JSONParse(text) == [i \in 1..Len(text) |-> ParseRecording(text[i])]

JsonFile(index) == [kind |-> "json", text |-> JSONStringify(index)]
CorruptFile == [kind |-> "corrupt", text |-> <<>>]
\* A file that JSON.parse accepts and that holds no object with a recordings
\* list: null, a number, {}, { "recordings": 1 }.
OtherJsonFile == [kind |-> "other", text |-> <<>>]
\* What JSON.parse makes of such a file, as far as the callers can tell:
\* index.recordings is no list.
NotAnIndex == <<[undefined |-> TRUE]>>
\* index.recordings is a list; where it is not, every use of it throws a TypeError.
HasRecordings(index) == index # NotAnIndex
MissingFile == [kind |-> "missing", text |-> <<>>]
\* The file as writeFile leaves it between its open and its write: it exists and
\* is empty.
PartialFile == [kind |-> "partial", text |-> <<>>]

\* Variant: a missing index file is left missing.
EnsureDataDirsKeepsMissing(file) == file

\* ensureDataDirs: a missing index file is created holding an empty index.
EnsureDataDirs(file) == IF file.kind = "missing" THEN JsonFile(<<>>) ELSE file

\* Variant: the fallback is reported as loaded from disk.
LoadRecordingsInternalAlwaysLoaded(file) ==
    LET f == EnsureDataDirs(file)
    IN IF f.kind = "json"
       THEN [index |-> JSONParse(f.text), loadedFromDisk |-> TRUE]
       ELSE IF f.kind = "other"
       THEN [index |-> NotAnIndex, loadedFromDisk |-> TRUE]
       ELSE [index |-> <<>>, loadedFromDisk |-> TRUE]

\* loadRecordingsInternal: the parsed file, or the empty fallback.
LoadRecordingsInternal(file) ==
    LET f == EnsureDataDirs(file)
    IN IF f.kind = "json"
       THEN [index |-> JSONParse(f.text), loadedFromDisk |-> TRUE]
       ELSE IF f.kind = "other"
       THEN [index |-> NotAnIndex, loadedFromDisk |-> TRUE]
       ELSE [index |-> <<>>, loadedFromDisk |-> FALSE]

LoadRecordings(file) == LoadRecordingsInternal(file).index

\* Variant: the index is written as it was before the last push.
SaveRecordingsBeforePush(index) == JsonFile(SubSeq(index, 1, Len(index) - 1))

\* saveRecordings: the file after the rename.
SaveRecordings(index) == JsonFile(index)

\* index.recordings.findIndex((r) => r.id === id); 0 stands for -1.
FindIndex(index, id) ==
    IF \E i \in 1..Len(index) : index[i].id = id
    THEN CHOOSE i \in 1..Len(index) :
             index[i].id = id /\ \A j \in 1..(i - 1) : index[j].id # id
    ELSE 0

\* Variant: splice(i) without a count removes the entries from i on.
SpliceToEnd(index, i) == SubSeq(index, 1, i - 1)

\* index.recordings.splice(i, 1)
Splice(index, i) == [j \in 1..(Len(index) - 1) |-> IF j < i THEN index[j] ELSE index[j + 1]]

\* getRecording: the found entry as a sequence of length 1, or <<>> for null.
GetRecording(file, id) ==
    LET index == LoadRecordings(file)
        i == FindIndex(index, id)
    IN IF i = 0 THEN <<>> ELSE <<index[i]>>

\* Variant: the retention period is added in seconds.
NewRecordingInSeconds(params, t) ==
    [id |-> params.id,
     createdAt |-> ToISOString(t),
     expiresAt |-> ToISOString(t + 7 * 24 * 60 * 60),
     duration |-> params.duration,
     hasMic |-> params.hasMic,
     hasSystemAudio |-> params.hasSystemAudio,
     format |-> params.format,
     tracks |-> params.tracks]

\* The Recording literal of createRecording.
NewRecording(params, t) ==
    [id |-> params.id,
     createdAt |-> ToISOString(t),
     expiresAt |-> ToISOString(t + RETENTION_MS),
     duration |-> params.duration,
     hasMic |-> params.hasMic,
     hasSystemAudio |-> params.hasSystemAudio,
     format |-> params.format,
     tracks |-> params.tracks]

\* Variant: the comparison is turned around.
IsExpiredReversed(recording, t) == DateParse(recording.expiresAt) > t

\* The expiry test of the sweep.
IsExpired(recording, t) == DateParse(recording.expiresAt) < t

\* toDelete of cleanupExpiredRecordings, in index order.
ToDelete(index, t) ==
    LET expired == SelectSeq(index, LAMBDA r : IsExpired(r, t))
    IN [i \in 1..Len(expired) |-> expired[i].id]

IndexIds(index) == {index[i].id : i \in 1..Len(index)}

\* ----------------------------------------------------------------- state
VARIABLES
    now,        \* the wall clock, in ms
    indexFile,  \* data/recordings.json
    disk,       \* data/recordings/<id>: whether it exists, and its files
    nextId,     \* the next id generateRecordingId hands out
    render,     \* the POST /api/process handlers, by recording id
    del,        \* the deleteRecording calls, by caller
    sweep,      \* the cleanupExpiredRecordings pass
    regAt,      \* history: when createRecording returned an entry for the id, or -1
    deleted,    \* history: ids for which deleteRecording returned true
    delReq,     \* the DELETE /api/recordings/[id] handler
    listReq,    \* the listing handler (GET /api/recordings, the page load)
    getReq,     \* the download and streaming handlers (GET .../[track])
    preview,    \* the recorder component: its microphone preview and the audio it holds
    plainFiles  \* data/recordings: the names of the entries that are no directories

vars ==
    <<now, indexFile, disk, nextId, render, del, sweep, regAt, deleted, delReq, listReq, getReq, preview,
      plainFiles>>

StartTime == MS_PER_DAY - SECOND_MS
\* The instants the clock shows: the start, one retention period later, and
\* small steps after each.
Instants ==
    {StartTime + a * SECOND_MS + b * RETENTION_MS : a \in 0..MaxTicks, b \in 0..1}

Callers == {"api", "sweep"}

NoDir == [exists |-> FALSE, files |-> {}]

IdleRender ==
    [pc |-> "idle", sys |-> FALSE, mic |-> FALSE, duck |-> FALSE, format |-> "mp3",
     duration |-> 0, tracks |-> EmptyTracks, rec |-> <<>>, index |-> <<>>,
     status |-> 0, log |-> <<>>]

IdleDel == [pc |-> "idle", id |-> 0, index |-> <<>>, at |-> 0, ret |-> FALSE]

IdleSweep ==
    [pc |-> "idle", index |-> <<>>, loaded |-> FALSE, now |-> 0, toDelete |-> <<>>,
     dirs |-> <<>>, indexed |-> {}, cleaned |-> 0, removed |-> {}]

IdleDelReq == [pc |-> "idle", id |-> 0, outcome |-> "", status |-> 0]

\* A response without headers and body (status 0: none yet).
NoResponse ==
    [status |-> 0, type |-> "", length |-> -1, range |-> <<>>, disposition |-> <<>>,
     accept |-> "", cache |-> "", body |-> <<>>]

NoRange == [present |-> FALSE, unit |-> "", start |-> 0, end |-> <<>>]

IdleGetReq ==
    [pc |-> "idle", route |-> "", id |-> 0, track |-> "", header |-> NoRange,
     format |-> "mp3", size |-> 0, resp |-> NoResponse]

\* The audio input devices, by device id.
Devices == {1, 2}

\* micEffects.boost, in tenths: 1.0, and 1.5 and 3.0 of the slider's 1.1..3.0.
BoostValues == {10, 15, 30}

MicEffects ==
    [highpass : BOOLEAN, noiseGate : BOOLEAN, boost : BoostValues, compressor : BOOLEAN,
     echo : BOOLEAN]

\* The $effects of the component that read the preview state: the rebuild on a
\* change of the effects, the restart on a change of the device, and the stop
\* when the microphone is disabled or the component unmounts.
EffectRebuild == "rebuild"
EffectRestart == "restart"
EffectStop == "stop"

\* An AudioContext that is closed, or was never made.
\* A context that is closed, or not made yet.  Gains are in tenths (a gain node
\* is made with gain 1.0), frequencies in Hz.  History: dropped (a rebuild has
\* taken a connection of the earlier configuration out of the graph).
ClosedContext ==
    [open |-> FALSE, stream |-> 0, edges |-> {}, boost |-> 10, reverbDry |-> 10,
     reverbWet |-> 10, reverbFilter |-> [type |-> "", frequency |-> 0], dropped |-> FALSE]

\* The component after mount: no preview, nothing acquired.  0 stands for null
\* and for the empty device id.  state is recorder.state; startRecording tells
\* the await at which the call of startRecording stands.  History: stopped (stopMicPreview was called
\* and startMicPreview has not been called since), stops (the calls of
\* stopMicPreview in a row, up to 2), changedWhileOn (a device was selected
\* while isPreviewing, after the last click on the preview button).
NoPreview ==
    [mounted |-> TRUE, includeMicrophone |-> FALSE, selectedMicId |-> 0,
     micEffects |-> [highpass |-> FALSE, noiseGate |-> FALSE, boost |-> 10,
                     compressor |-> FALSE, echo |-> FALSE],
     isPreviewing |-> FALSE, previewStream |-> 0, previewAudioContext |-> 0,
     previewSource |-> 0, previewNodes |-> 0, lastPreviewMicId |-> 0,
     streams |-> [k \in 1..MaxStreams |-> 0],
     contexts |-> [k \in 1..MaxStreams |-> ClosedContext],
     pending |-> [d \in Devices |-> 0],
     state |-> "idle", startRecording |-> "idle",
     dirty |-> {}, stopped |-> FALSE, stops |-> 0, changedWhileOn |-> FALSE]

IdleListReq == [pc |-> "idle", by |-> "", now |-> 0, recordings |-> <<>>, status |-> 0]

\* The state after hooks.server.ts has run ensureDataDirs on a fresh data directory.
Init ==
    /\ now = StartTime
    /\ indexFile = JsonFile(<<>>)
    /\ disk = [i \in Ids |-> NoDir]
    /\ nextId = 1
    /\ render = [i \in Ids |-> IdleRender]
    /\ del = [c \in Callers |-> IdleDel]
    /\ sweep = IdleSweep
    /\ regAt = [i \in Ids |-> -1]
    /\ deleted = {}
    /\ delReq = IdleDelReq
    /\ listReq = IdleListReq
    /\ getReq = IdleGetReq
    /\ preview = NoPreview
    /\ plainFiles = {}

Index == LoadRecordings(indexFile)

\* ------------------------------------------------------ POST /api/process
RenderInFlight(i) == render[i].pc \notin {"idle", "done", "failed"}

\* The handler throws at the current stage: control goes to the catch block.
Throw(r, status) == [r EXCEPT !.pc = "catch", !.status = status]

\* The handler has returned: its locals are gone.
Returned(pc, status) == [IdleRender EXCEPT !.pc = pc, !.status = status]

Logged(r, stage, arg) == [r EXCEPT !.log = Append(@, <<stage, arg>>)]

\* The form data of a request: whether systemAudio and micAudio are given,
\* duckSystemAudio, outputFormat and the parsed duration.
Requests ==
    [sys : BOOLEAN, mic : BOOLEAN, duck : BOOLEAN, format : Formats, duration : Durations]

\* Variant: the id is drawn from a pool in which ids come back.
PostReusesId(i, requests) ==
    /\ render[i].pc \in {"idle", "done", "failed"}
    /\ nextId' = nextId
    /\ \E q \in requests :
          LET r == [IdleRender EXCEPT !.sys = q.sys, !.mic = q.mic, !.duck = q.duck,
                                      !.format = q.format, !.duration = q.duration]
          IN /\ disk' = [disk EXCEPT ![i] = [exists |-> TRUE, files |-> {}]]
             /\ render' = [render EXCEPT ![i] = [r EXCEPT !.pc = "writeSystem"]]
    /\ UNCHANGED <<now, indexFile, del, sweep, regAt, deleted, delReq, listReq, getReq, preview, plainFiles>>

\* generateRecordingId, mkdir(recordingDir), request.formData().
Post(i, requests) ==
    /\ i = nextId
    /\ render[i].pc = "idle"
    /\ nextId' = nextId + 1
    /\ \E q \in requests, ok \in BOOLEAN :
          LET r == Logged([IdleRender EXCEPT !.sys = q.sys, !.mic = q.mic, !.duck = q.duck,
                                             !.format = q.format, !.duration = q.duration],
                          "mkdir", "")
          IN IF ok
             THEN /\ disk' = [disk EXCEPT ![i] = [exists |-> TRUE, files |-> {}]]
                  /\ render' = [render EXCEPT ![i] = [r EXCEPT !.pc = "writeSystem"]]
             ELSE /\ disk' = disk
                  /\ render' = [render EXCEPT ![i] = Throw(r, 500)]
    /\ UNCHANGED <<now, indexFile, del, sweep, regAt, deleted, delReq, listReq, getReq, preview, plainFiles>>

\* Variant: systemAudio is not checked before it is written.
WriteSystemNoCheck(i) ==
    LET r == Logged(render[i], "writeSystem", "") IN
    /\ render[i].pc = "writeSystem"
    /\ \E ok \in BOOLEAN :
         IF ok /\ render[i].sys /\ disk[i].exists
         THEN /\ disk' = [disk EXCEPT ![i].files = @ \cup {SystemInput}]
              /\ render' = [render EXCEPT ![i] =
                     [r EXCEPT !.pc = IF r.mic THEN "writeMic" ELSE "encSystem"]]
         ELSE /\ disk' = disk
              /\ render' = [render EXCEPT ![i] = Throw(r, 500)]
    /\ UNCHANGED <<now, indexFile, nextId, del, sweep, regAt, deleted, delReq, listReq, getReq, preview,
                   plainFiles>>

\* The check for systemAudio, then writeFile(systemInputPath).
WriteSystem(i) ==
    LET r == render[i] IN
    /\ r.pc = "writeSystem"
    /\ IF ~r.sys
       THEN /\ render' = [render EXCEPT ![i] = Throw(Logged(r, "noSystemAudio", ""), 400)]
            /\ disk' = disk
       ELSE \E ok \in BOOLEAN :
            IF ok /\ disk[i].exists
            THEN /\ disk' = [disk EXCEPT ![i].files = @ \cup {SystemInput}]
                 /\ render' = [render EXCEPT ![i] =
                        [Logged(r, "writeSystem", "") EXCEPT
                            !.pc = IF r.mic THEN "writeMic" ELSE "encSystem"]]
            ELSE /\ disk' = disk
                 /\ render' = [render EXCEPT ![i] = Throw(Logged(r, "writeSystem", ""), 500)]
    /\ UNCHANGED <<now, indexFile, nextId, del, sweep, regAt, deleted, delReq, listReq, getReq, preview,
                   plainFiles>>

\* writeFile(micInputPath), when micAudio is given.
WriteMic(i) ==
    LET r == Logged(render[i], "writeMic", "") IN
    /\ render[i].pc = "writeMic"
    /\ \E ok \in BOOLEAN :
         IF ok /\ disk[i].exists
         THEN /\ disk' = [disk EXCEPT ![i].files = @ \cup {MicInput}]
              /\ render' = [render EXCEPT ![i] = [r EXCEPT !.pc = "encSystem"]]
         ELSE /\ disk' = disk
              /\ render' = [render EXCEPT ![i] = Throw(r, 500)]
    /\ UNCHANGED <<now, indexFile, nextId, del, sweep, regAt, deleted, delReq, listReq, getReq, preview,
                   plainFiles>>

\* The -filter_complex of the mixed track without ducking.
MixFilter == <<"[0:a][1:a]amix=inputs=2:duration=longest:weights=0.7 1[out]">>

\* Variant: the ducking compressor is left out of the filter graph.
DuckFilterNoCompressor == MixFilter

\* The -filter_complex of the mixed track with ducking, joined by ';'.
DuckFilter ==
    <<"[1:a]asplit=2[sc][mic]",
      "[0:a][sc]sidechaincompress=threshold=0.02:ratio=4:attack=50:release=500[ducked]",
      "[ducked][mic]amix=inputs=2:duration=longest:weights=0.7 1[out]">>

\* The ffmpeg command line: -i inputs, -filter_complex and -map when a filter is
\* given, -ac 2 -ar 48000 -c:a codec output -y.
FfmpegCommand(inputs, filter, format, out) ==
    [inputs |-> inputs, filter |-> filter, map |-> IF filter = <<>> THEN "" ELSE "[out]",
     ac |-> 2, ar |-> 48000, codec |-> FORMAT_CODECS(format), out |-> out]

\* One ffmpeg run: it needs its inputs and the output directory; when it fails it
\* may leave a partial output file behind.
Encode(i, stage, track, inputs, filter, nextPc) ==
    LET out == TrackFile(track, render[i].format)
        r == Logged(render[i], stage, FfmpegCommand(inputs, filter, render[i].format, out))
    IN
    /\ render[i].pc = stage
    /\ \E ok \in BOOLEAN, partial \in BOOLEAN :
         IF ok /\ disk[i].exists /\ {inputs[k] : k \in 1..Len(inputs)} \subseteq disk[i].files
         THEN /\ disk' = [disk EXCEPT ![i].files = @ \cup {out}]
              /\ render' = [render EXCEPT ![i] =
                     [r EXCEPT !.pc = nextPc, !.tracks = @ @@ (track :> out)]]
         ELSE /\ disk' = IF partial /\ disk[i].exists
                         THEN [disk EXCEPT ![i].files = @ \cup {out}]
                         ELSE disk
              /\ render' = [render EXCEPT ![i] = Throw(r, 500)]
    /\ UNCHANGED <<now, indexFile, nextId, del, sweep, regAt, deleted, delReq, listReq, getReq, preview,
                   plainFiles>>

EncSystem(i) ==
    Encode(i, "encSystem", "system", <<SystemInput>>, <<>>,
           IF render[i].mic THEN "encMic" ELSE "rmInputs")

EncMic(i) == Encode(i, "encMic", "mic", <<MicInput>>, <<>>, "encMixed")

EncMixed(i) ==
    Encode(i, "encMixed", "mixed", <<SystemInput, MicInput>>,
           IF render[i].duck THEN DuckFilter ELSE MixFilter, "rmInputs")

\* rm -f of the two raw inputs.
RmInputs(i) ==
    LET r == Logged(render[i], "rmInputs", "") IN
    /\ render[i].pc = "rmInputs"
    /\ \E ok \in BOOLEAN :
         IF ok
         THEN /\ disk' = [disk EXCEPT ![i].files = @ \ {SystemInput, MicInput}]
              /\ render' = [render EXCEPT ![i] = [r EXCEPT !.pc = "register"]]
         ELSE /\ disk' = disk
              /\ render' = [render EXCEPT ![i] = Throw(r, 500)]
    /\ UNCHANGED <<now, indexFile, nextId, del, sweep, regAt, deleted, delReq, listReq, getReq, preview,
                   plainFiles>>

\* createRecording up to its loadRecordings: the entry is stamped, the index read.
Register(i) ==
    LET r == Logged(render[i], "register", "")
        params == [id |-> i, duration |-> r.duration, hasMic |-> r.mic,
                   hasSystemAudio |-> TRUE, format |-> r.format, tracks |-> r.tracks]
    IN
    /\ render[i].pc = "register"
    /\ indexFile' = EnsureDataDirs(indexFile)
    /\ render' = [render EXCEPT ![i] =
           [r EXCEPT !.pc = "save", !.rec = <<NewRecording(params, now)>>,
                     !.index = LoadRecordings(indexFile)]]
    /\ UNCHANGED <<now, disk, nextId, del, sweep, regAt, deleted, delReq, listReq, getReq, preview,
                   plainFiles>>

\* createRecording from the push to its return: saveRecordings.  The push
\* throws when index.recordings is no list.
Save(i) ==
    LET r == Logged(render[i], "save", "") IN
    /\ render[i].pc = "save"
    /\ \E ok \in BOOLEAN :
         IF ok /\ HasRecordings(r.index)
         THEN /\ indexFile' = SaveRecordings(Append(r.index, r.rec[1]))
              /\ render' = [render EXCEPT ![i] = [r EXCEPT !.pc = "returned"]]
              /\ regAt' = [regAt EXCEPT ![i] = DateParse(r.rec[1].createdAt)]
         ELSE /\ indexFile' = indexFile
              /\ render' = [render EXCEPT ![i] = Throw(r, 500)]
              /\ regAt' = regAt
    /\ UNCHANGED <<now, disk, nextId, del, sweep, deleted, delReq, listReq, getReq, preview, plainFiles>>

\* A download URL, or <<>> for null.
TrackUrl(i, tracks, role) ==
    IF role \in DOMAIN tracks THEN <<"api", "recordings", i, role, "download">> ELSE <<>>

\* Variant: a URL is returned for every role.
ResponseAllUrls(i, tracks) ==
    [id |-> i,
     systemAudioUrl |-> TrackUrl(i, [r \in RoleSet |-> ""], "system"),
     micAudioUrl |-> TrackUrl(i, [r \in RoleSet |-> ""], "mic"),
     mixedAudioUrl |-> TrackUrl(i, [r \in RoleSet |-> ""], "mixed")]

\* The body of the response of a successful render.
Response(i, tracks) ==
    [id |-> i,
     systemAudioUrl |-> TrackUrl(i, tracks, "system"),
     micAudioUrl |-> TrackUrl(i, tracks, "mic"),
     mixedAudioUrl |-> TrackUrl(i, tracks, "mixed")]

\* return json(...)
Respond(i) ==
    /\ render[i].pc = "returned"
    /\ render' = [render EXCEPT ![i] = Returned("done", 200)]
    /\ UNCHANGED <<now, indexFile, disk, nextId, del, sweep, regAt, deleted, delReq,
                   listReq, getReq, preview, plainFiles>>

\* Variant: the catch block throws the error on without removing the directory.
RollbackKeepsDir(i) ==
    /\ render[i].pc = "catch"
    /\ disk' = disk
    /\ render' = [render EXCEPT ![i] = Returned("failed", render[i].status)]
    /\ UNCHANGED <<now, indexFile, nextId, del, sweep, regAt, deleted, delReq, listReq, getReq, preview,
                   plainFiles>>

\* The catch block: rm -rf of the recording directory, then the error is thrown on.
Rollback(i) ==
    /\ render[i].pc = "catch"
    /\ disk' = [disk EXCEPT ![i] = NoDir]
    /\ render' = [render EXCEPT ![i] = Returned("failed", render[i].status)]
    /\ UNCHANGED <<now, indexFile, nextId, del, sweep, regAt, deleted, delReq, listReq, getReq, preview,
                   plainFiles>>

\* -------------------------------------------------------- deleteRecording
\* Variant: no early return; splice(-1, 1) then takes the last entry.
DelCallNoEarlyReturn(c, id) ==
    LET index == LoadRecordings(indexFile)
        at == FindIndex(index, id)
    IN
    /\ del[c].pc = "idle"
    /\ indexFile' = EnsureDataDirs(indexFile)
    /\ del' = [del EXCEPT ![c] =
           IF ~HasRecordings(index)
           THEN [IdleDel EXCEPT !.pc = "threw", !.id = id]
           ELSE [IdleDel EXCEPT !.pc = "rm", !.id = id, !.index = index,
                                !.at = IF at = 0 THEN Len(index) ELSE at]]

\* loadRecordings and findIndex; an id that is not found returns false at once.
\* findIndex throws when index.recordings is no list.
DelCall(c, id) ==
    LET index == LoadRecordings(indexFile)
        at == FindIndex(index, id)
    IN
    /\ del[c].pc = "idle"
    /\ indexFile' = EnsureDataDirs(indexFile)
    /\ del' = [del EXCEPT ![c] =
           IF ~HasRecordings(index)
           THEN [IdleDel EXCEPT !.pc = "threw", !.id = id]
           ELSE IF at = 0
           THEN [IdleDel EXCEPT !.pc = "ret", !.id = id, !.ret = FALSE]
           ELSE [IdleDel EXCEPT !.pc = "rm", !.id = id, !.index = index, !.at = at]]

\* rm(recordingDir, { recursive: true, force: true })
DelRm(c) ==
    /\ del[c].pc = "rm"
    /\ disk' = [disk EXCEPT ![del[c].id] = NoDir]
    /\ del' = [del EXCEPT ![c].pc = "save"]

\* rm throws (the directory cannot be removed): the catch swallows the error and
\* the call goes on.
DelRmFails(c) ==
    /\ del[c].pc = "rm"
    /\ del' = [del EXCEPT ![c].pc = "save"]

\* splice and saveRecordings; a failed save throws out of deleteRecording.
DelSave(c) ==
    /\ del[c].pc = "save"
    /\ \E ok \in BOOLEAN :
         IF ok
         THEN /\ indexFile' = SaveRecordings(Splice(del[c].index, del[c].at))
              /\ del' = [del EXCEPT ![c] = [IdleDel EXCEPT !.pc = "ret", !.id = del[c].id,
                                                          !.ret = TRUE]]
              /\ deleted' = deleted \cup {del[c].id}
         ELSE /\ indexFile' = indexFile
              /\ del' = [del EXCEPT ![c] = [IdleDel EXCEPT !.pc = "threw", !.id = del[c].id]]
              /\ deleted' = deleted

\* A direct call of deleteRecording(id), for any id.
ApiDelete(id) ==
    /\ DelCall("api", id)
    /\ UNCHANGED <<now, disk, nextId, render, sweep, regAt, deleted, delReq, listReq, getReq, preview,
                   plainFiles>>

ApiDeleteRm ==
    /\ DelRm("api")
    /\ UNCHANGED <<now, indexFile, nextId, render, sweep, regAt, deleted, delReq,
                   listReq, getReq, preview, plainFiles>>

ApiDeleteRmFails ==
    /\ DelRmFails("api")
    /\ UNCHANGED <<now, indexFile, disk, nextId, render, sweep, regAt, deleted, delReq,
                   listReq, getReq, preview, plainFiles>>

ApiDeleteSave ==
    /\ DelSave("api")
    /\ UNCHANGED <<now, disk, nextId, render, sweep, regAt, delReq, listReq, getReq, preview, plainFiles>>

ApiDeleteReturn ==
    /\ del["api"].pc \in {"ret", "threw"}
    /\ del' = [del EXCEPT !["api"] = IdleDel]
    /\ UNCHANGED <<now, indexFile, disk, nextId, render, sweep, regAt, deleted, delReq,
                   listReq, getReq, preview, plainFiles>>

\* ----------------------------------------------- cleanupExpiredRecordings
\* Where the pass goes when the loop over toDelete has nothing left to do.
AfterExpire(toDelete, loadedFromDisk) ==
    IF toDelete # <<>> THEN "expire" ELSE IF loadedFromDisk THEN "readdir" ELSE "done"

\* loadRecordingsInternal, now, and the collection of the expired ids.  The
\* loop over index.recordings throws when it is no list.
SweepBegin ==
    LET loaded == LoadRecordingsInternal(indexFile)
        toDelete == ToDelete(loaded.index, now)
    IN
    /\ sweep.pc = "idle"
    /\ indexFile' = EnsureDataDirs(indexFile)
    /\ sweep' = IF ~HasRecordings(loaded.index)
                THEN [IdleSweep EXCEPT !.pc = "threw", !.loaded = loaded.loadedFromDisk,
                                       !.now = now]
                ELSE [IdleSweep EXCEPT !.pc = AfterExpire(toDelete, loaded.loadedFromDisk),
                                       !.index = loaded.index,
                                       !.loaded = loaded.loadedFromDisk,
                                       !.now = now, !.toDelete = toDelete]
    /\ UNCHANGED <<now, disk, nextId, render, del, regAt, deleted, delReq, getReq, preview, plainFiles>>

\* The pass is called by init() or by the hourly callback of hooks.server.ts.
SweepStart ==
    /\ SweepBegin
    /\ listReq' = listReq

\* deleteRecording(id) for the next expired id.
SweepDelete ==
    /\ sweep.pc = "expire"
    /\ sweep.toDelete # <<>>
    /\ DelCall("sweep", Head(sweep.toDelete))
    /\ UNCHANGED <<now, disk, nextId, render, sweep, regAt, deleted, delReq, listReq, getReq, preview,
                   plainFiles>>

SweepDeleteRm ==
    /\ DelRm("sweep")
    /\ sweep' = [sweep EXCEPT !.removed = @ \cup {del["sweep"].id}]
    /\ UNCHANGED <<now, indexFile, nextId, render, regAt, deleted, delReq, listReq, getReq, preview,
                   plainFiles>>

SweepDeleteSave ==
    /\ DelSave("sweep")
    /\ UNCHANGED <<now, disk, nextId, render, sweep, regAt, delReq, listReq, getReq, preview, plainFiles>>

\* deleteRecording has returned (true or false): cleaned++.  When it threw, the
\* pass throws.
SweepDeleteReturn ==
    /\ del["sweep"].pc \in {"ret", "threw"}
    /\ del' = [del EXCEPT !["sweep"] = IdleDel]
    /\ sweep' = IF del["sweep"].pc = "threw"
                THEN [sweep EXCEPT !.pc = "threw"]
                ELSE [sweep EXCEPT !.pc = AfterExpire(Tail(sweep.toDelete), sweep.loaded),
                                   !.toDelete = Tail(@), !.cleaned = @ + 1]
    /\ UNCHANGED <<now, indexFile, disk, nextId, render, regAt, deleted, delReq, listReq, getReq, preview,
                   plainFiles>>

\* The name of an entry of data/recordings that is no directory: no id.
PlainName == 0

\* readdir(RECORDINGS_DIR) lists the entries that are no directories too.
PlainNames(plain) == IF PlainName \in plain THEN <<PlainName>> ELSE <<>>

\* readdir(RECORDINGS_DIR): the directory names, in ascending order.
ReadDir(d) ==
    LET RECURSIVE upTo(_)
        upTo(n) == IF n = 0 THEN <<>>
                   ELSE IF d[n].exists THEN Append(upTo(n - 1), n) ELSE upTo(n - 1)
    IN upTo(MaxRenders)

SweepReaddir ==
    /\ sweep.pc = "readdir"
    /\ sweep' = [sweep EXCEPT !.pc = "reload", !.dirs = PlainNames(plainFiles) \o ReadDir(disk)]
    /\ UNCHANGED <<now, indexFile, disk, nextId, render, del, regAt, deleted, delReq,
                   listReq, getReq, preview, plainFiles>>

\* Variant: the scan stops at the directories the index names.
OrphansIndexed(dirs, indexedIds) == SelectSeq(dirs, LAMBDA d : d \in indexedIds)

\* The directories the loop stops at: those no id of the index names.
Orphans(dirs, indexedIds) == SelectSeq(dirs, LAMBDA d : d \notin indexedIds)

\* const currentIndex = await loadRecordings(); indexedIds.  When
\* currentIndex.recordings is no list, map throws into the catch of the scan.
SweepReload ==
    LET indexedIds == IndexIds(LoadRecordings(indexFile))
        rest == Orphans(sweep.dirs, indexedIds)
    IN
    /\ sweep.pc = "reload"
    /\ indexFile' = EnsureDataDirs(indexFile)
    /\ sweep' = IF ~HasRecordings(LoadRecordings(indexFile))
                THEN [sweep EXCEPT !.pc = "done", !.dirs = <<>>]
                ELSE [sweep EXCEPT !.pc = IF rest = <<>> THEN "done" ELSE "scan",
                                   !.indexed = indexedIds, !.dirs = rest]
    /\ UNCHANGED <<now, disk, nextId, render, del, regAt, deleted, delReq, listReq, getReq, preview,
                   plainFiles>>

\* stat(dirPath) of a name that is gone throws.
StatThrows(d, dk, plain) == ~(d \in plain \/ (d \in Ids /\ dk[d].exists))

\* Variant: every entry of data/recordings is taken for a directory.
IsDirectoryAlways(d, dk) == TRUE

\* dirStat.isDirectory()
IsDirectory(d, dk) == d \in Ids /\ dk[d].exists

\* rm(dirPath, { recursive: true, force: true }) removes what the name stands for.
RmPath(d, dk) == IF d \in Ids THEN [dk EXCEPT ![d] = NoDir] ELSE dk

\* stat and rm of the next name that is not indexed: a directory is removed and
\* counted, another entry is passed over.  stat of a name that is gone throws,
\* which ends the scan.
SweepScan ==
    LET d == Head(sweep.dirs)
        next == IF Tail(sweep.dirs) = <<>> THEN "done" ELSE "scan"
    IN
    /\ sweep.pc = "scan"
    /\ IF StatThrows(d, disk, plainFiles)
       THEN /\ disk' = disk
            /\ plainFiles' = plainFiles
            /\ sweep' = [sweep EXCEPT !.pc = "done", !.dirs = <<>>]
       ELSE IF IsDirectory(d, disk)
       THEN /\ disk' = RmPath(d, disk)
            /\ plainFiles' = plainFiles \ {d}
            /\ sweep' = [sweep EXCEPT !.pc = next, !.dirs = Tail(@), !.cleaned = @ + 1,
                                      !.removed = @ \cup {d}]
       ELSE /\ disk' = disk
            /\ plainFiles' = plainFiles
            /\ sweep' = [sweep EXCEPT !.pc = next, !.dirs = Tail(@)]
    /\ UNCHANGED <<now, indexFile, nextId, render, del, regAt, deleted, delReq, listReq, getReq,
                   preview>>

\* return cleaned, or the exception of a failed deleteRecording, to the try
\* block of hooks.server.ts, which logs and swallows the exception.
SweepReturn ==
    /\ sweep.pc \in {"done", "threw"}
    /\ listReq.pc # "cleanup"
    /\ sweep' = IdleSweep
    /\ UNCHANGED <<now, indexFile, disk, nextId, render, del, regAt, deleted, delReq,
                   listReq, getReq, preview, plainFiles>>

\* ------------------------------------------- DELETE /api/recordings/[id]
\* getRecording(id): no entry gives 404.
DeleteLookup(id) ==
    /\ delReq.pc = "idle"
    /\ indexFile' = EnsureDataDirs(indexFile)
    /\ delReq' = IF ~HasRecordings(LoadRecordings(indexFile))
                 THEN [IdleDelReq EXCEPT !.pc = "responded", !.id = id, !.status = 500]
                 ELSE IF GetRecording(indexFile, id) = <<>>
                 THEN [IdleDelReq EXCEPT !.pc = "responded", !.id = id, !.status = 404]
                 ELSE [IdleDelReq EXCEPT !.pc = "found", !.id = id]
    /\ UNCHANGED <<now, disk, nextId, render, del, sweep, regAt, deleted, listReq, getReq, preview,
                   plainFiles>>

\* const deleted = await deleteRecording(id)
DeleteCall ==
    /\ delReq.pc = "found"
    /\ DelCall("api", delReq.id)
    /\ delReq' = [delReq EXCEPT !.pc = "deleting"]
    /\ UNCHANGED <<now, disk, nextId, render, sweep, regAt, deleted, listReq, getReq, preview, plainFiles>>

\* The status of the response: 500 when deleteRecording returned false, and
\* when it threw; else 200.
DeleteStatus(outcome) == IF outcome = "true" THEN 200 ELSE 500

\* deleteRecording has returned or thrown: the handler responds.
DeleteRespond ==
    LET outcome == IF del["api"].pc = "threw" THEN "threw"
                   ELSE IF del["api"].ret THEN "true" ELSE "false"
    IN
    /\ delReq.pc = "deleting"
    /\ del["api"].pc \in {"ret", "threw"}
    /\ del' = [del EXCEPT !["api"] = IdleDel]
    /\ delReq' = [delReq EXCEPT !.pc = "responded", !.outcome = outcome,
                                !.status = DeleteStatus(outcome)]
    /\ UNCHANGED <<now, indexFile, disk, nextId, render, sweep, regAt, deleted, listReq, getReq, preview,
                   plainFiles>>

\* The response is sent; the next DELETE may come.
DeleteDone ==
    /\ delReq.pc = "responded"
    /\ delReq' = IdleDelReq
    /\ UNCHANGED <<now, indexFile, disk, nextId, render, del, sweep, regAt, deleted, listReq, getReq, preview,
                   plainFiles>>

\* ------------------------------------- GET /api/recordings, the page load
ListTriggers == {"GET", "load"}

\* [...index.recordings].sort((a, b) => Date(b.createdAt) - Date(a.createdAt)):
\* newest first, entries of the same instant in index order.
SortNewestFirst(index) ==
    LET RECURSIVE insert(_, _), sorted(_)
        insert(e, q) ==
            IF q = <<>> THEN <<e>>
            ELSE IF DateParse(e.createdAt) > DateParse(Head(q).createdAt)
                 THEN <<e>> \o q
                 ELSE <<Head(q)>> \o insert(e, Tail(q))
        sorted(n) == IF n = 0 THEN <<>> ELSE insert(index[n], sorted(n - 1))
    IN sorted(Len(index))

\* await cleanupExpiredRecordings(), called without a try block.
ListBegin(by) ==
    /\ listReq.pc = "idle"
    /\ SweepBegin
    /\ listReq' = [IdleListReq EXCEPT !.pc = "cleanup", !.by = by, !.now = now]

\* cleanupExpiredRecordings has returned.
ListCleaned ==
    /\ listReq.pc = "cleanup"
    /\ sweep.pc = "done"
    /\ sweep' = IdleSweep
    /\ listReq' = [listReq EXCEPT !.pc = "load"]
    /\ UNCHANGED <<now, indexFile, disk, nextId, render, del, regAt, deleted, delReq, getReq, preview,
                   plainFiles>>

\* cleanupExpiredRecordings has thrown: the handler throws, the request fails.
ListFail ==
    /\ listReq.pc = "cleanup"
    /\ sweep.pc = "threw"
    /\ sweep' = IdleSweep
    /\ listReq' = [listReq EXCEPT !.pc = "responded", !.status = 500]
    /\ UNCHANGED <<now, indexFile, disk, nextId, render, del, regAt, deleted, delReq, getReq, preview,
                   plainFiles>>

\* loadRecordings, the sort, and the response.  The spread of
\* index.recordings throws when it is no list, and the request fails.
ListLoad ==
    /\ listReq.pc = "load"
    /\ indexFile' = EnsureDataDirs(indexFile)
    /\ listReq' = IF ~HasRecordings(LoadRecordings(indexFile))
                  THEN [listReq EXCEPT !.pc = "responded", !.status = 500]
                  ELSE [listReq EXCEPT !.pc = "responded", !.status = 200,
                                       !.recordings = SortNewestFirst(LoadRecordings(indexFile))]
    /\ UNCHANGED <<now, disk, nextId, render, del, sweep, regAt, deleted, delReq, getReq, preview, plainFiles>>

\* The response is sent; the next request may come.
ListDone ==
    /\ listReq.pc = "responded"
    /\ listReq' = IdleListReq
    /\ UNCHANGED <<now, indexFile, disk, nextId, render, del, sweep, regAt, deleted, delReq, getReq, preview,
                   plainFiles>>

\* ------------------- GET /api/recordings/[id]/[track] and .../download
Routes == {"stream", "download"}
TrackParams == RoleSet \cup {"cover"}
Sizes == 0..MaxSize

\* The Range headers of a request: none; bytes=start- and bytes=start-end; and
\* one of another unit.  The end is <<>> when no digits follow the dash.
RangeHeaders ==
    {NoRange}
    \cup [present : {TRUE}, unit : {"items"}, start : {0}, end : {<<1>>}]
    \cup [present : {TRUE}, unit : {"bytes"}, start : 0..(MaxSize + 1),
          end : {<<>>} \cup {<<e>> : e \in 0..(MaxSize + 1)}]

\* rangeHeader.match(/bytes=(\d+)-(\d*)/)
RangeMatch(header) == header.present /\ header.unit = "bytes"

\* match[2] ? parseInt(match[2], 10) : fileSize - 1
RangeEnd(header, fileSize) == IF header.end # <<>> THEN header.end[1] ELSE fileSize - 1

\* The bytes of a file of the given size, each named by its offset.
FileBytes(size) == [k \in 1..size |-> k - 1]

Least(a, b) == IF a <= b THEN a ELSE b

\* Variant: the end offset is taken as exclusive.
SubarrayEndExclusive(buffer, start, end) ==
    LET from == Least(start, Len(buffer))
        to == Least(end - 1, Len(buffer))
    IN IF to <= from THEN <<>> ELSE SubSeq(buffer, from + 1, to)

\* fileBuffer.subarray(start, end): both offsets are clamped to the length.
Subarray(buffer, start, end) ==
    LET from == Least(start, Len(buffer))
        to == Least(end, Len(buffer))
    IN IF to <= from THEN <<>> ELSE SubSeq(buffer, from + 1, to)

\* Variant: opus is reported as audio/ogg.
GetContentTypeOgg(format) ==
    CASE format = "mp3" -> "audio/mpeg"
      [] format = "aac" -> "audio/mp4"
      [] format = "opus" -> "audio/ogg"
      [] OTHER -> "application/octet-stream"

GetContentType(format) ==
    CASE format = "mp3" -> "audio/mpeg"
      [] format = "aac" -> "audio/mp4"
      [] format = "opus" -> "audio/webm"
      [] OTHER -> "application/octet-stream"

GetFileExtension(format) ==
    CASE format = "mp3" -> "mp3"
      [] format = "aac" -> "m4a"
      [] format = "opus" -> "webm"
      [] OTHER -> "bin"

\* throw error(status, ...)
ErrorResponse(status) == [NoResponse EXCEPT !.status = status]

\* The download response: the whole file as an attachment.
DownloadResponse(q, buffer) ==
    [NoResponse EXCEPT
       !.status = 200,
       !.type = GetContentType(q.format),
       !.length = q.size,
       !.disposition = <<"attachment; filename=\"", q.track, "-", ToString(q.id), ".",
                         GetFileExtension(q.format), "\"">>,
       !.cache = "private, no-cache",
       !.body = buffer]

\* 416 with Content-Range: bytes */fileSize
RangeNotSatisfiable(fileSize) ==
    [NoResponse EXCEPT !.status = 416, !.range = <<"bytes */", ToString(fileSize)>>]

\* 206 with the chunk and Content-Range: bytes start-end/fileSize
PartialContent(q, buffer) ==
    LET start == q.header.start
        end == RangeEnd(q.header, q.size)
        chunk == Subarray(buffer, start, end + 1)
    IN [NoResponse EXCEPT
          !.status = 206,
          !.type = GetContentType(q.format),
          !.length = Len(chunk),
          !.range = <<"bytes ", ToString(start), "-", ToString(end), "/", ToString(q.size)>>,
          !.accept = "bytes",
          !.cache = "private, max-age=3600",
          !.body = chunk]

\* The streaming response without a range: the whole file.
FullContent(q, buffer) ==
    [NoResponse EXCEPT
       !.status = 200,
       !.type = GetContentType(q.format),
       !.length = q.size,
       !.accept = "bytes",
       !.cache = "private, max-age=3600",
       !.body = buffer]

\* The track file of the request is there.
TrackFileExists(q) ==
    disk[q.id].exists /\ TrackFile(q.track, q.format) \in disk[q.id].files

\* Variant: every track parameter is taken for a track name.
IsTrackNameAny(track) == TRUE

\* ['mic', 'system', 'mixed'].includes(track)
IsTrackName(track) == track \in {"mic", "system", "mixed"}

\* A GET comes in: the track name is validated, the entry looked up (find
\* throws when index.recordings is no list, and the request fails) and the
\* track looked up in its tracks.
GetBegin(route, id, track, header) ==
    LET found == GetRecording(indexFile, id)
        q == [IdleGetReq EXCEPT !.route = route, !.id = id, !.track = track,
                                !.header = header]
    IN
    /\ getReq.pc = "idle"
    /\ IF ~IsTrackName(track)
       THEN /\ getReq' = [q EXCEPT !.pc = "responded", !.resp = ErrorResponse(400)]
            /\ indexFile' = indexFile
       ELSE /\ indexFile' = EnsureDataDirs(indexFile)
            /\ getReq' =
                 IF ~HasRecordings(LoadRecordings(indexFile))
                 THEN [q EXCEPT !.pc = "responded", !.resp = ErrorResponse(500)]
                 ELSE IF found = <<>> \/ track \notin DOMAIN found[1].tracks
                 THEN [q EXCEPT !.pc = "responded", !.resp = ErrorResponse(404)]
                 ELSE [q EXCEPT !.pc = "stat", !.format = found[1].format]
    /\ UNCHANGED <<now, disk, nextId, render, del, sweep, regAt, deleted, delReq, listReq, preview,
                   plainFiles>>

\* stat(filePath): the size of the file, or a throw into the catch.  A range
\* that starts at or after the size is answered at once.
GetStat ==
    /\ getReq.pc = "stat"
    /\ IF TrackFileExists(getReq)
       THEN \E fileSize \in Sizes :
              getReq' =
                 IF /\ getReq.route = "stream"
                    /\ RangeMatch(getReq.header)
                    /\ getReq.header.start >= fileSize
                 THEN [getReq EXCEPT !.pc = "responded", !.size = fileSize,
                                      !.resp = RangeNotSatisfiable(fileSize)]
                 ELSE [getReq EXCEPT !.pc = "read", !.size = fileSize]
       ELSE getReq' = [getReq EXCEPT !.pc = "responded", !.resp = ErrorResponse(500)]
    /\ UNCHANGED <<now, indexFile, disk, nextId, render, del, sweep, regAt, deleted,
                   delReq, listReq, preview, plainFiles>>

\* readFile(filePath) and the response.
GetRead ==
    LET buffer == FileBytes(getReq.size) IN
    /\ getReq.pc = "read"
    /\ getReq' =
         [getReq EXCEPT
            !.pc = "responded",
            !.resp = IF ~TrackFileExists(getReq) THEN ErrorResponse(500)
                     ELSE IF getReq.route = "download" THEN DownloadResponse(getReq, buffer)
                     ELSE IF RangeMatch(getReq.header) THEN PartialContent(getReq, buffer)
                     ELSE FullContent(getReq, buffer)]
    /\ UNCHANGED <<now, indexFile, disk, nextId, render, del, sweep, regAt, deleted,
                   delReq, listReq, preview, plainFiles>>

\* The response is sent; the next GET may come.
GetDone ==
    /\ getReq.pc = "responded"
    /\ getReq' = IdleGetReq
    /\ UNCHANGED <<now, indexFile, disk, nextId, render, del, sweep, regAt, deleted,
                   delReq, listReq, preview, plainFiles>>

\* ------------------------------------- the microphone preview (recorder)
\* The rest of the state, which the component does not touch.
server ==
    <<now, indexFile, disk, nextId, render, del, sweep, regAt, deleted, delReq, listReq,
      getReq, plainFiles>>

\* The nodes of the preview graph, <<name, index>>; the index tells the taps of
\* the reverb apart.
Node(name) == <<name, 0>>
Source == Node("previewSource")
Destination == Node("destination")
Taps == 1..8

\* The microphone streams whose tracks have not been stopped, and the contexts
\* that have not been closed.
LiveStreams(p) == {k \in 1..MaxStreams : p.streams[k] # 0}
OpenContexts(p) == {k \in 1..MaxStreams : p.contexts[k].open}

\* The calls of startMicPreview that await their stream.
RECURSIVE SumOver(_, _)
SumOver(f, D) ==
    IF D = {} THEN 0 ELSE LET d == CHOOSE x \in D : TRUE IN f[d] + SumOver(f, D \ {d})

InFlight(p) == SumOver(p.pending, Devices)

\* The $effects that have read isPreviewing in their last run.
Dependents(p) ==
    IF ~p.mounted THEN {}
    ELSE {EffectRebuild, EffectRestart} \cup (IF p.includeMicrophone THEN {} ELSE {EffectStop})

\* isPreviewing = v: the $effects that read it are scheduled when it changes.
SetIsPreviewing(p, v) ==
    IF p.isPreviewing = v THEN p
    ELSE [p EXCEPT !.isPreviewing = v, !.dirty = @ \cup Dependents(p)]

\* Variant: boost is inserted at unity gain too.
BoostInsertedAtUnity(effects) == effects.boost >= 10

\* effects.boost > 1.0
BoostInserted(effects) == effects.boost > 10

\* Variant: boost comes before the noise gate.
StageOrderBoostFirst == <<"highpass", "boost", "noiseGate", "compressor">>

\* The stages in the order rebuildPreviewChain goes through them.
StageOrder == <<"highpass", "noiseGate", "boost", "compressor">>

StageEnabled(stage, effects) ==
    CASE stage = "highpass" -> effects.highpass
      [] stage = "noiseGate" -> effects.noiseGate
      [] stage = "boost" -> BoostInserted(effects)
      [] stage = "compressor" -> effects.compressor

\* currentNode and the connections made after the stages up to the k-th.
RECURSIVE Chained(_, _)
Chained(effects, k) ==
    IF k = 0 THEN [currentNode |-> Source, edges |-> {}]
    ELSE LET before == Chained(effects, k - 1) IN
         IF StageEnabled(StageOrder[k], effects)
         THEN [currentNode |-> Node(StageOrder[k]),
               edges |-> before.edges \cup {<<before.currentNode, Node(StageOrder[k])>>}]
         ELSE before

\* Variant: currentNode is connected to the destination beside the reverb.
ReverbEdgesAndDirect(currentNode) ==
    {<<currentNode, Node("reverbDry")>>, <<Node("reverbDry"), Destination>>,
     <<currentNode, Node("reverbInput")>>, <<currentNode, Destination>>}
    \cup {<<Node("reverbInput"), <<"reverbDelays", i>> >> : i \in Taps}
    \cup {<< <<"reverbDelays", i>>, <<"reverbGains", i>> >> : i \in Taps}
    \cup {<< <<"reverbGains", i>>, Node("reverbOutput")>> : i \in Taps}
    \cup {<<Node("reverbOutput"), Node("reverbFilter")>>,
          <<Node("reverbFilter"), Node("reverbWet")>>,
          <<Node("reverbWet"), Destination>>}

\* The dry path and the wet path (input, parallel delays, low-pass, wet gain)
\* of the reverb, from currentNode.
ReverbEdges(currentNode) ==
    {<<currentNode, Node("reverbDry")>>, <<Node("reverbDry"), Destination>>,
     <<currentNode, Node("reverbInput")>>}
    \cup {<<Node("reverbInput"), <<"reverbDelays", i>> >> : i \in Taps}
    \cup {<< <<"reverbDelays", i>>, <<"reverbGains", i>> >> : i \in Taps}
    \cup {<< <<"reverbGains", i>>, Node("reverbOutput")>> : i \in Taps}
    \cup {<<Node("reverbOutput"), Node("reverbFilter")>>,
          <<Node("reverbFilter"), Node("reverbWet")>>,
          <<Node("reverbWet"), Destination>>}

\* The nodes startMicPreview makes beside the source.
PreviewNodes ==
    {Node(name) : name \in {"highpass", "noiseGate", "boost", "compressor", "reverbInput",
                            "reverbOutput", "reverbDry", "reverbWet", "reverbFilter"}}
    \cup {<<name, i>> : name \in {"reverbDelays", "reverbGains"}, i \in Taps}

\* Variant: the taps of the reverb and their gains are left connected.
DisconnectedButTaps(p) ==
    {Source} \cup (IF p.previewNodes # 0
                   THEN {n \in PreviewNodes : n[1] \notin {"reverbDelays", "reverbGains"}}
                   ELSE {})

\* The nodes rebuildPreviewChain calls disconnect() on.
Disconnected(p) == {Source} \cup (IF p.previewNodes # 0 THEN PreviewNodes ELSE {})

\* node.disconnect(): every connection from the output of the node is taken away.
Disconnect(edges, nodes) == {e \in edges : e[1] \notin nodes}

\* rebuildPreviewChain: every node is disconnected, then the enabled stages are
\* connected in order, and the reverb or the destination at the end.
RebuildPreviewChain(p) ==
    IF p.previewAudioContext = 0 \/ p.previewSource = 0 THEN p
    ELSE LET effects == p.micEffects
             chain == Chained(effects, Len(StageOrder))
             old == p.contexts[p.previewAudioContext].edges
             kept == Disconnect(old, Disconnected(p))
             made == IF effects.echo /\ p.previewNodes # 0
                     THEN chain.edges \cup ReverbEdges(chain.currentNode)
                     ELSE chain.edges \cup {<<chain.currentNode, Destination>>}
         IN [p EXCEPT
               !.contexts[p.previewAudioContext].boost =
                   IF BoostInserted(effects) /\ p.previewNodes # 0 THEN effects.boost ELSE @,
               !.contexts[p.previewAudioContext].reverbDry =
                   IF effects.echo /\ p.previewNodes # 0 THEN 7 ELSE @,
               !.contexts[p.previewAudioContext].reverbWet =
                   IF effects.echo /\ p.previewNodes # 0 THEN 5 ELSE @,
               !.contexts[p.previewAudioContext].edges = kept \cup made,
               !.contexts[p.previewAudioContext].dropped = @ \/ old \ (kept \cup made) # {}]

\* Variant: isPreviewing is flipped instead of cleared.
StopMicPreviewFlips(p) ==
    SetIsPreviewing(
        [p EXCEPT
           !.streams = IF p.previewStream # 0 THEN [@ EXCEPT ![p.previewStream] = 0] ELSE @,
           !.previewStream = 0,
           !.contexts = IF p.previewAudioContext # 0
                        THEN [@ EXCEPT ![p.previewAudioContext] = ClosedContext] ELSE @,
           !.previewAudioContext = 0,
           !.previewSource = 0,
           !.previewNodes = 0,
           !.stopped = TRUE,
           !.stops = IF @ < 2 THEN @ + 1 ELSE @],
        ~p.isPreviewing)

\* stopMicPreview: the tracks of the stream are stopped, the context is closed,
\* every reference is cleared.
StopMicPreview(p) ==
    SetIsPreviewing(
        [p EXCEPT
           !.streams = IF p.previewStream # 0 THEN [@ EXCEPT ![p.previewStream] = 0] ELSE @,
           !.previewStream = 0,
           !.contexts = IF p.previewAudioContext # 0
                        THEN [@ EXCEPT ![p.previewAudioContext] = ClosedContext] ELSE @,
           !.previewAudioContext = 0,
           !.previewSource = 0,
           !.previewNodes = 0,
           !.stopped = TRUE,
           !.stops = IF @ < 2 THEN @ + 1 ELSE @],
        FALSE)

\* startMicPreview up to its await: getMicrophoneStream is called for the
\* device that is selected now.
StartMicPreview(p) ==
    [p EXCEPT !.pending[p.selectedMicId] = @ + 1, !.stopped = FALSE, !.stops = 0]

\* The slot of the next stream and its context.
FreeSlot(p) ==
    CHOOSE k \in 1..MaxStreams :
        /\ k \notin LiveStreams(p) \cup OpenContexts(p)
        /\ \A j \in 1..(k - 1) : j \in LiveStreams(p) \cup OpenContexts(p)

\* startMicPreview after its await: the stream is kept, the context and the
\* nodes are made, the chain is built, isPreviewing = true.
StartMicPreviewResumes(p, device) ==
    LET k == FreeSlot(p) IN
    SetIsPreviewing(
        RebuildPreviewChain(
            [p EXCEPT
               !.pending[device] = @ - 1,
               !.streams[k] = device,
               !.previewStream = k,
               !.contexts[k] = [ClosedContext EXCEPT
                                  !.open = TRUE, !.stream = k,
                                  !.reverbFilter = [type |-> "lowpass", frequency |-> 4000]],
               !.previewAudioContext = k,
               !.previewSource = k,
               !.previewNodes = k,
               !.stops = 0]),
        TRUE)

\* getMicrophoneStream rejects: the catch calls stopMicPreview.
StartMicPreviewCatches(p, device) ==
    StopMicPreview([p EXCEPT !.pending[device] = @ - 1])

\* The $effect on the effects: rebuild while previewing.
RunEffectRebuild(p) == IF p.isPreviewing THEN RebuildPreviewChain(p) ELSE p

\* The $effect on the device: stop and start again when the device differs from
\* the last one previewed; the last one is recorded while previewing.
RunEffectRestart(p) ==
    LET micId == p.selectedMicId
        q == IF /\ p.isPreviewing
                /\ micId # 0
                /\ p.lastPreviewMicId # 0
                /\ micId # p.lastPreviewMicId
             THEN StartMicPreview(StopMicPreview(p))
             ELSE p
    IN IF q.isPreviewing THEN [q EXCEPT !.lastPreviewMicId = micId] ELSE q

\* The $effect on includeMicrophone: its teardown, stopMicPreview, runs before
\* each run; the run stops the preview when the microphone is disabled.
RunEffectStop(p) ==
    LET q == StopMicPreview(p)
    IN IF ~q.includeMicrophone /\ q.isPreviewing THEN StopMicPreview(q) ELSE q

\* The scheduled $effects run, in the order of their creation.
RunEffects(p) ==
    LET p0 == [p EXCEPT !.dirty = {}]
        p1 == IF EffectRebuild \in p.dirty THEN RunEffectRebuild(p0) ELSE p0
        p2 == IF EffectRestart \in p.dirty THEN RunEffectRestart(p1) ELSE p1
    IN IF EffectStop \in p.dirty THEN RunEffectStop(p2) ELSE p2

\* An event handler may run: the component is mounted and no $effect is waiting.
Settled == preview.mounted /\ preview.dirty = {}

\* The controls before the recording are rendered while recorder.state is idle.
ControlsShown == preview.state = "idle"

\* There is room for one more stream.
Room == Cardinality(LiveStreams(preview)) + InFlight(preview) < MaxStreams

\* The preview button, shown while the microphone is included.
ToggleMicPreview ==
    /\ Settled
    /\ ControlsShown
    /\ preview.includeMicrophone
    /\ IF preview.isPreviewing
       THEN preview' = [StopMicPreview(preview) EXCEPT !.changedWhileOn = FALSE]
       ELSE Room /\ preview' = [StartMicPreview(preview) EXCEPT !.changedWhileOn = FALSE]
    /\ UNCHANGED server

\* The microphone checkbox; the first time it is set, the devices are loaded
\* and the first one is selected.
HandleMicChange ==
    /\ Settled
    /\ ControlsShown
    /\ preview' =
         [preview EXCEPT
            !.includeMicrophone = ~@,
            !.selectedMicId = IF @ = 0 THEN 1 ELSE @,
            !.dirty = @ \cup {EffectStop}
                        \cup (IF preview.selectedMicId = 0 THEN {EffectRestart} ELSE {})]
    /\ UNCHANGED server

\* The device select.
HandleMicSelect ==
    /\ Settled
    /\ ControlsShown
    /\ preview.includeMicrophone
    /\ \E device \in Devices \ {preview.selectedMicId} :
         preview' = [preview EXCEPT !.selectedMicId = device,
                                    !.dirty = @ \cup {EffectRestart},
                                    !.changedWhileOn = @ \/ preview.isPreviewing]
    /\ UNCHANGED server

\* An effect checkbox or the boost slider: one field of micEffects changes.
SetMicEffect ==
    /\ Settled
    /\ ControlsShown
    /\ preview.includeMicrophone
    /\ \E effects \in MicEffects :
         /\ Cardinality({f \in DOMAIN effects : effects[f] # preview.micEffects[f]}) = 1
         /\ preview' = [preview EXCEPT !.micEffects = effects,
                                       !.dirty = @ \cup {EffectRebuild}]
    /\ UNCHANGED server

\* The $effects that were scheduled run before any other event.
Flush ==
    /\ preview.mounted
    /\ preview.dirty # {}
    /\ preview' = RunEffects(preview)
    /\ UNCHANGED server

\* The component is destroyed: the teardown runs, the $effects are gone.
Unmount ==
    /\ Settled
    /\ preview' = [StopMicPreview(preview) EXCEPT !.mounted = FALSE, !.dirty = {}]
    /\ UNCHANGED server

\* The record button: startRecording up to its first await.  A preview that is
\* on is stopped; getDisplayMediaStream is called.
StartRecording ==
    /\ Settled
    /\ ControlsShown
    /\ preview.startRecording = "idle"
    /\ preview' = [(IF preview.isPreviewing THEN StopMicPreview(preview) ELSE preview)
                      EXCEPT !.startRecording = "display"]
    /\ UNCHANGED server

\* recorder.startRecording: state = 'recording'.
RecorderStartRecording(p) == [p EXCEPT !.state = "recording", !.startRecording = "idle"]

\* getDisplayMediaStream resolves: with the microphone included its stream is
\* awaited next, else the recording starts.
DisplayResolves ==
    /\ preview.dirty = {}
    /\ preview.startRecording = "display"
    /\ preview' = IF preview.includeMicrophone
                  THEN [preview EXCEPT !.startRecording = "mic"]
                  ELSE RecorderStartRecording(preview)
    /\ UNCHANGED server

\* getMicrophoneStream of startRecording resolves: the recording starts.
MicResolves ==
    /\ preview.dirty = {}
    /\ preview.startRecording = "mic"
    /\ preview' = RecorderStartRecording(preview)
    /\ UNCHANGED server

\* One of the two rejects: recorder.setError.
CaptureRejects ==
    /\ preview.dirty = {}
    /\ preview.startRecording \in {"display", "mic"}
    /\ preview' = [preview EXCEPT !.state = "error", !.startRecording = "idle"]
    /\ UNCHANGED server

\* getMicrophoneStream resolves for one of the calls that await it.
StreamResolves ==
    /\ preview.dirty = {}
    /\ \E device \in Devices :
         /\ preview.pending[device] > 0
         /\ preview' = StartMicPreviewResumes(preview, device)
    /\ UNCHANGED server

\* getMicrophoneStream rejects for one of the calls that await it.
StreamRejects ==
    /\ preview.dirty = {}
    /\ \E device \in Devices :
         /\ preview.pending[device] > 0
         /\ preview' = StartMicPreviewCatches(preview, device)
    /\ UNCHANGED server

\* ------------------------------------------------------------ environment
\* The clock advances to a later instant.
Tick(instants) ==
    /\ \E t \in instants : t > now /\ now' = t
    /\ UNCHANGED <<indexFile, disk, nextId, render, del, sweep, regAt, deleted, delReq,
                   listReq, getReq, preview, plainFiles>>

\* The index file is damaged (unparsable or unreadable) or removed.
DamageIndex ==
    /\ \E f \in {CorruptFile, MissingFile} : f # indexFile /\ indexFile' = f
    /\ UNCHANGED <<now, disk, nextId, render, del, sweep, regAt, deleted, delReq,
                   listReq, getReq, preview, plainFiles>>

\* ensureDataDirs on a data directory without index file, step by step:
\* writeFile(INDEX_FILE, ...) opens the file, which creates it empty ...
EnsureOpen ==
    /\ indexFile.kind = "missing"
    /\ indexFile' = PartialFile
    /\ UNCHANGED <<now, disk, nextId, render, del, sweep, regAt, deleted, delReq,
                   listReq, getReq, preview, plainFiles>>

\* ... and then writes the empty index into it.  When a rename has put another
\* file in its place meanwhile, the write goes to the file that was replaced.
EnsureWrite ==
    /\ indexFile.kind = "partial"
    /\ indexFile' = JsonFile(<<>>)
    /\ UNCHANGED <<now, disk, nextId, render, del, sweep, regAt, deleted, delReq,
                   listReq, getReq, preview, plainFiles>>

\* ---------------------------------------------------------- specification
Quiet ==
    /\ \A i \in Ids : ~RenderInFlight(i)
    /\ del["api"].pc = "idle"
    /\ sweep.pc = "idle"
    /\ delReq.pc = "idle"
    /\ listReq.pc = "idle"
    /\ getReq.pc = "idle"

\* An operation that was called takes its next step.
RenderContinue ==
    \E i \in Ids :
        \/ WriteSystem(i) \/ WriteMic(i) \/ EncSystem(i) \/ EncMic(i) \/ EncMixed(i)
        \/ RmInputs(i) \/ Register(i) \/ Save(i) \/ Respond(i) \/ Rollback(i)

DeleteContinue == ApiDeleteRm \/ ApiDeleteSave \/ ApiDeleteReturn

SweepContinue ==
    \/ SweepDelete \/ SweepDeleteRm \/ SweepDeleteSave \/ SweepDeleteReturn
    \/ SweepReaddir \/ SweepReload \/ SweepScan \/ SweepReturn

Continue == RenderContinue \/ DeleteContinue \/ SweepContinue

\* The audio parameters play no part in the catalog, so where the catalog is
\* the subject one combination of them is requested, with and without system
\* audio and microphone.
PlainRequests == {q \in Requests : q.duck /\ q.format = "aac" /\ q.duration = 90}

\* Operations run one at a time; the clock advances and the index file is
\* damaged between them.
SerialPost == Quiet /\ \E i \in Ids : Post(i, PlainRequests)
SerialDelete == Quiet /\ \E id \in Ids : ApiDelete(id)
SerialSweep == Quiet /\ SweepStart
SerialTick == Quiet /\ Tick(Instants)
SerialDamage == Quiet /\ DamageIndex

Begin == SerialPost \/ SerialDelete \/ SerialSweep \/ SerialTick \/ SerialDamage

Next == Begin \/ Continue

Spec == Init /\ [][Next]_vars

\* Renders and direct calls of deleteRecording, one at a time; the removal of
\* the directory may fail.
RmNext == SerialPost \/ SerialDelete \/ RenderContinue \/ DeleteContinue \/ ApiDeleteRmFails

SpecRm == Init /\ [][RmNext]_vars

\* One render, in any format, with or without microphone, and direct calls of
\* deleteRecording; between them GET requests for any id and track, with any
\* Range header.
GetRequests == {q \in Requests : q.sys /\ q.duck /\ q.duration = 90}

GetPost == Quiet /\ nextId = 1 /\ \E i \in Ids : Post(i, GetRequests)
GetRequest ==
    /\ Quiet
    /\ \E route \in Routes, id \in Ids, track \in TrackParams, header \in RangeHeaders :
         GetBegin(route, id, track, IF route = "stream" THEN header ELSE NoRange)
GetContinue == GetStat \/ GetRead \/ GetDone

GetNext == GetPost \/ SerialDelete \/ GetRequest \/ RenderContinue \/ DeleteContinue \/ GetContinue

SpecGet == Init /\ [][GetNext]_vars

\* The preview with its races: clicks, device changes, the microphone checkbox
\* and the unmount come while calls of getMicrophoneStream are awaited.
PreviewNext ==
    \/ ToggleMicPreview \/ HandleMicChange \/ HandleMicSelect \/ Unmount
    \/ Flush \/ StreamResolves \/ StreamRejects

SpecPreview == Init /\ [][PreviewNext]_vars

\* The preview and the start of a recording.
RecordNext ==
    \/ ToggleMicPreview \/ HandleMicChange \/ Flush \/ StreamResolves \/ StreamRejects
    \/ StartRecording \/ DisplayResolves \/ MicResolves \/ CaptureRejects

SpecRecord == Init /\ [][RecordNext]_vars

\* The preview on one device, with every change of the effects; the button is
\* not clicked while a stream is awaited.
ChainToggle == InFlight(preview) = 0 /\ ToggleMicPreview

ChainNext ==
    \/ ChainToggle \/ HandleMicChange \/ SetMicEffect
    \/ Flush \/ StreamResolves \/ StreamRejects

SpecChain == Init /\ [][ChainNext]_vars

\* Renders run one at a time, with every request.
AnyPost == Quiet /\ \E i \in Ids : Post(i, Requests)

RequestsNext == AnyPost \/ RenderContinue

SpecRequests == Init /\ [][RequestsNext]_vars

\* Handlers interleave at every await; the clock jumps past the retention period.
RaceRequests == {q \in PlainRequests : q.mic}
RaceInstants == {StartTime, StartTime + RETENTION_MS + SECOND_MS}

RaceBegin ==
    \/ \E i \in Ids : Post(i, RaceRequests)
    \/ \E id \in Ids : ApiDelete(id)
    \/ SweepStart
    \/ Tick(RaceInstants)

RaceNext == RaceBegin \/ Continue

SpecRace == Init /\ [][RaceNext]_vars

\* Two renders of the same upload that differ in duckSystemAudio only, side by
\* side: a request after the first is the twin of a render that is in flight.
SameButDuck(q, r) ==
    /\ q.sys = r.sys /\ q.mic = r.mic /\ q.format = r.format /\ q.duration = r.duration
    /\ q.duck # r.duck

TwinRequests ==
    {q \in Requests : \E j \in Ids : RenderInFlight(j) /\ SameButDuck(q, render[j])}

DuckPost == \E i \in Ids : Post(i, IF nextId = 1 THEN Requests ELSE TwinRequests)

DuckNext == DuckPost \/ RenderContinue

SpecDuck == Init /\ [][DuckNext]_vars

\* The server starts on a data directory without index file, and requests are
\* served while init() of hooks.server.ts is still creating it.
FreshInit ==
    /\ now = StartTime
    /\ indexFile = MissingFile
    /\ disk = [i \in Ids |-> NoDir]
    /\ nextId = 1
    /\ render = [i \in Ids |-> IdleRender]
    /\ del = [c \in Callers |-> IdleDel]
    /\ sweep = IdleSweep
    /\ regAt = [i \in Ids |-> -1]
    /\ deleted = {}
    /\ delReq = IdleDelReq
    /\ listReq = IdleListReq
    /\ getReq = IdleGetReq
    /\ preview = NoPreview
    /\ plainFiles = {}

FreshPost == \E i \in Ids : Post(i, RaceRequests)

FreshNext ==
    \/ EnsureOpen \/ EnsureWrite
    \/ FreshPost \/ RenderContinue
    \/ SweepStart \/ SweepReaddir \/ SweepReload \/ SweepScan \/ SweepReturn

SpecFresh == FreshInit /\ [][FreshNext]_vars

\* DELETE requests and passes interleave at their awaits; renders and the clock
\* run between them.
NoRender == \A i \in Ids : ~RenderInFlight(i)

RegisteringRequests == {q \in RaceRequests : q.sys}

DeleteRaceLookup == NoRender /\ \E id \in Ids : DeleteLookup(id)
DeleteRaceSweep == NoRender /\ SweepStart
DeleteRacePost == Quiet /\ \E i \in Ids : Post(i, RegisteringRequests)
DeleteRaceTick == Quiet /\ Tick(RaceInstants)

DeleteNext ==
    \/ DeleteRaceLookup \/ DeleteRaceSweep \/ DeleteRacePost \/ DeleteRaceTick
    \/ DeleteCall \/ ApiDeleteRm \/ ApiDeleteSave \/ DeleteRespond \/ DeleteDone
    \/ RenderContinue \/ SweepContinue

SpecDelete == Init /\ [][DeleteNext]_vars

\* Listing requests, renders and the passes of hooks.server.ts, one at a time;
\* the index file is damaged between them.
ListPost == Quiet /\ \E i \in Ids : Post(i, RegisteringRequests)
ListTick == Quiet /\ Tick(Instants)
ListSweep == Quiet /\ SweepStart
ListRequest == Quiet /\ \E by \in ListTriggers : ListBegin(by)
ListDamage == Quiet /\ DamageIndex

ListNext ==
    \/ ListPost \/ ListTick \/ ListSweep \/ ListRequest \/ ListDamage
    \/ RenderContinue \/ SweepContinue
    \/ ListCleaned \/ ListFail \/ ListLoad \/ ListDone

SpecList == Init /\ [][ListNext]_vars

\* Renders, direct calls of deleteRecording and passes, one at a time; between
\* them the clock advances, the index file is damaged or removed, and a file
\* that is no directory appears in data/recordings.
PlainFileAppears ==
    /\ Quiet
    /\ plainFiles = {}
    /\ plainFiles' = {PlainName}
    /\ UNCHANGED <<now, indexFile, disk, nextId, render, del, sweep, regAt, deleted, delReq,
                   listReq, getReq, preview>>

OrphanPost == Quiet /\ \E i \in Ids : Post(i, RegisteringRequests)

OrphanNext ==
    \/ OrphanPost \/ SerialDelete \/ SerialTick \/ SerialSweep \/ SerialDamage
    \/ PlainFileAppears \/ Continue

SpecOrphan == Init /\ [][OrphanNext]_vars

\* Renders and passes, one at a time; the index file becomes unparsable or
\* unreadable, or is removed, between the two loads of a pass.
ReloadDamage == sweep.pc \in {"readdir", "reload"} /\ DamageIndex

ReloadNext ==
    \/ SerialPost \/ SerialTick \/ SerialSweep \/ ReloadDamage
    \/ RenderContinue \/ SweepContinue

SpecReload == Init /\ [][ReloadNext]_vars

\* The passes of hooks.server.ts, init() and then the callback of every hour,
\* beside renders that interleave with them at every await; nothing fails in a
\* pass.  The timer goes on firing and a pass that was called goes on running.
SweepDeleteSaveOk == SweepDeleteSave /\ del'["sweep"].pc = "ret"

LiveSweep ==
    \/ SweepDelete \/ SweepDeleteRm \/ SweepDeleteSaveOk \/ SweepDeleteReturn
    \/ SweepReaddir \/ SweepReload \/ SweepScan \/ SweepReturn

HourlySweep == SweepStart
LivePost == \E i \in Ids : Post(i, RegisteringRequests)
LiveTick == Tick(RaceInstants)

LiveNext == LivePost \/ LiveTick \/ HourlySweep \/ RenderContinue \/ LiveSweep

SpecLive == Init /\ [][LiveNext]_vars /\ WF_vars(HourlySweep) /\ WF_vars(LiveSweep)

\* The operations on the index, one at a time, on whatever the index file
\* holds: between them the file is damaged, removed, or replaced by JSON of
\* another shape.
ShapeDamage ==
    /\ Quiet
    /\ \E f \in {CorruptFile, MissingFile, OtherJsonFile} : f # indexFile /\ indexFile' = f
    /\ UNCHANGED <<now, disk, nextId, render, del, sweep, regAt, deleted, delReq, listReq,
                   getReq, preview, plainFiles>>

ShapePost == Quiet /\ \E i \in Ids : Post(i, RegisteringRequests)
ShapeGet == Quiet /\ \E id \in Ids, track \in RoleSet : GetBegin("download", id, track, NoRange)
ShapeList == Quiet /\ ListBegin("GET")

ShapeNext ==
    \/ ShapeDamage \/ ShapePost \/ SerialDelete \/ SerialSweep \/ ShapeGet \/ ShapeList
    \/ RenderContinue \/ DeleteContinue
    \/ SweepReaddir \/ SweepReload \/ SweepScan \/ SweepReturn
    \/ GetContinue
    \/ ListCleaned \/ ListFail \/ ListLoad \/ ListDone

SpecShape == Init /\ [][ShapeNext]_vars

\* ================================================================ claims
Entries(index) == {index[k] : k \in 1..Len(index)}
ExpiresAt(recording) == DateParse(recording.expiresAt)
NoRetry(i) ==
    \A j, k \in 1..Len(render[i].log) :
        j # k => render[i].log[j][1] # render[i].log[k][1]

C2_TracksHaveFiles ==
    \A e \in Entries(Index) : \A role \in DOMAIN e.tracks :
        disk[e.id].exists /\ e.tracks[role] \in disk[e.id].files

\* C3: a pass whose index load failed removes no directory and counts none.
C3_FailedLoadRemovesNothing ==
    (sweep.pc # "idle" /\ indexFile.kind = "corrupt") =>
        (~sweep.loaded /\ sweep.removed = {} /\ sweep.cleaned = 0)

\* A pass over an unparsable index has finished while directories exist.
C3_Witness ==
    /\ sweep.pc = "done"
    /\ indexFile.kind = "corrupt"
    /\ \E i \in Ids : disk[i].exists /\ regAt[i] >= 0

\* C4: the directory of a recording that was registered and has not expired is
\* removed by nothing but an explicit deleteRecording call for it.
C4_OnlyExplicitDeleteRemoves ==
    [][\A i \in Ids :
         (/\ regAt[i] >= 0
          /\ now < regAt[i] + 7 * MS_PER_DAY
          /\ disk[i].exists
          /\ ~disk'[i].exists)
         => (del["api"].pc = "rm" /\ del["api"].id = i)]_vars

\* C5: when no operation is in flight and no render has failed, the index holds
\* exactly the entries that were created and not deleted.
C5_NoLostUpdate ==
    (Quiet /\ \A i \in Ids : render[i].pc # "failed") =>
        IndexIds(Index) = {i \in Ids : render[i].pc = "done"} \ deleted

\* C6: getRecording(id), right after createRecording has returned, yields the
\* entry createRecording returned, field by field.
C6_GetAfterCreate ==
    \A i \in Ids :
        render[i].pc = "returned" =>
            LET got == GetRecording(indexFile, i)
                made == render[i].rec[1]
            IN /\ Len(got) = 1
               /\ got[1].id = made.id
               /\ got[1].createdAt = made.createdAt
               /\ got[1].expiresAt = made.expiresAt
               /\ got[1].duration = made.duration
               /\ got[1].hasMic = made.hasMic
               /\ got[1].hasSystemAudio = made.hasSystemAudio
               /\ got[1].format = made.format
               /\ got[1].tracks = made.tracks

\* createRecording has returned the second entry of the index, with three tracks.
C6_Witness ==
    \E i \in Ids :
        /\ render[i].pc = "returned"
        /\ Len(Index) = 2
        /\ DOMAIN render[i].rec[1].tracks = RoleSet

\* C7: deleteRecording of an id the index does not hold returns false and
\* changes neither the entries of the index nor the directories.
C7_DeleteUnknownIsNoOp ==
    [][\A c \in Callers :
         (del[c].pc = "idle" /\ del'[c].pc # "idle" /\ del'[c].id \notin IndexIds(Index))
         => (/\ del'[c].pc = "ret"
             /\ del'[c].ret = FALSE
             /\ Index' = Index
             /\ disk' = disk)]_vars

\* deleteRecording has returned false while the index holds another entry and
\* its directory exists.
C7_Witness ==
    /\ del["api"].pc = "ret"
    /\ del["api"].ret = FALSE
    /\ \E e \in Entries(Index) : e.id # del["api"].id /\ disk[e.id].exists

\* C8: a pass whose now equals an entry's expiresAt deletes that entry.
C8_InclusiveBoundary ==
    (sweep.pc = "done" /\ sweep.loaded) =>
        \A e \in Entries(sweep.index) :
            ExpiresAt(e) = sweep.now => (e.id \notin IndexIds(Index) /\ ~disk[e.id].exists)

C9_Expired ==
    (sweep.pc = "done" /\ sweep.loaded) =>
        \A e \in Entries(sweep.index) :
            ExpiresAt(e) < sweep.now => (e.id \notin IndexIds(Index) /\ ~disk[e.id].exists)

C9_Kept ==
    sweep.pc \notin {"idle", "threw"} /\ sweep.loaded =>
        \A e \in Entries(sweep.index) :
            ExpiresAt(e) > sweep.now => (e \in Entries(Index') /\ disk'[e.id] = disk[e.id])

C10_Retention ==
    \A e \in Entries(Index) : DateParse(e.expiresAt) = DateParse(e.createdAt) + 7 * MS_PER_DAY

C10_Unchanged ==
    \A e \in Entries(Index), f \in Entries(Index') : e.id = f.id => e = f

\* C10: every entry of the index expires exactly 7 days after its creation
\* (C10_Retention), and an entry that is in the index before and after a step is
\* the same entry, field by field (C10_Unchanged).
C10_EntriesImmutable == [] C10_Retention /\ [][C10_Unchanged]_vars

\* The index holds an entry created across a day boundary, after another entry
\* was deleted.
C10_Witness ==
    /\ deleted # {}
    /\ \E e \in Entries(Index) : e.createdAt.ms # 0 /\ e.expiresAt.day = e.createdAt.day + 7

\* C11: no two entries of the persisted index have the same id.
C11_UniqueIds ==
    \A j, k \in 1..Len(Index) : j # k => Index[j].id # Index[k].id

\* The index holds two entries while a pass over a loaded index has finished.
C11_Witness ==
    /\ Len(Index) = 2
    /\ sweep.pc = "done"
    /\ sweep.loaded

\* The roles the body of a response carries a URL for.
UrlRoles(body) ==
    {r \in RoleSet :
        \/ r = "system" /\ body.systemAudioUrl # <<>>
        \/ r = "mic" /\ body.micAudioUrl # <<>>
        \/ r = "mixed" /\ body.mixedAudioUrl # <<>>}

C12_Registered ==
    \A i \in Ids :
        render[i].pc = "returned" =>
            LET e == render[i].rec[1] IN
            /\ render[i].sys
            /\ e.hasSystemAudio
            /\ e.hasMic = render[i].mic
            /\ DOMAIN e.tracks = (IF render[i].mic THEN RoleSet ELSE {"system"})
            /\ \A r \in DOMAIN e.tracks : e.tracks[r] = TrackFile(r, render[i].format)
            /\ GetRecording(indexFile, i) = <<e>>

C12_Responded ==
    \A i \in Ids :
        (render[i].pc = "returned" /\ render'[i].pc = "done") =>
            LET body == Response(i, render[i].tracks) IN
            /\ body.id = i
            /\ UrlRoles(body) = DOMAIN render[i].rec[1].tracks
            /\ \A r \in UrlRoles(body) : TrackUrl(i, render[i].tracks, r)[4] = r

\* C12: the entry a successful render registers has hasSystemAudio true, hasMic
\* as the request had a microphone, and the tracks system (without microphone)
\* or system, mic and mixed (with it) (C12_Registered); the response carries a
\* URL for exactly the roles of the entry's tracks (C12_Responded).
C12_RolesRendered == [] C12_Registered /\ [][C12_Responded]_vars

\* A render without microphone is about to respond while the index holds an
\* entry with three tracks.
C12_Witness ==
    \E i \in Ids :
        /\ render[i].pc = "returned"
        /\ ~render[i].mic
        /\ \E e \in Entries(Index) : DOMAIN e.tracks = RoleSet

\* Two renders in flight whose requests differ in duckSystemAudio only.
Twins(i, j) ==
    /\ i # j
    /\ RenderInFlight(i)
    /\ RenderInFlight(j)
    /\ SameButDuck(render[i], render[j])

ShorterLog(i, j) ==
    IF Len(render[i].log) <= Len(render[j].log) THEN Len(render[i].log) ELSE Len(render[j].log)

\* C13: for two renders that differ in duckSystemAudio only, the stages run are
\* the same and every stage but the mixed encode is run with the same command;
\* the mixed encodes differ in the filter graph only, which with ducking is the
\* sidechain compressor (threshold 0.02, ratio 4, attack 50, release 500) ahead
\* of the 0.7/1 weighted mix; at the same stage the roles rendered are the same,
\* a failure gives the same status, and the entries made agree in every field
\* but id and timestamps.
C13_DuckOnlyInMix ==
    \A i, j \in Ids :
        (Twins(i, j) /\ render[i].duck) =>
            LET li == render[i].log
                lj == render[j].log
            IN
            /\ \A k \in 1..ShorterLog(i, j) :
                 /\ li[k][1] = lj[k][1]
                 /\ li[k][1] \notin {"encSystem", "encMic", "encMixed"} => li[k] = lj[k]
                 /\ li[k][1] \in {"encSystem", "encMic", "encMixed"} =>
                      /\ li[k][2].inputs = lj[k][2].inputs
                      /\ li[k][2].codec = lj[k][2].codec
                      /\ li[k][2].ac = lj[k][2].ac
                      /\ li[k][2].ar = lj[k][2].ar
                      /\ li[k][2].out = lj[k][2].out
                 /\ li[k][1] \in {"encSystem", "encMic"} => li[k][2].filter = lj[k][2].filter
                 /\ li[k][1] = "encMixed" =>
                      /\ li[k][2].filter # lj[k][2].filter
                      /\ li[k][2].filter =
                           <<"[1:a]asplit=2[sc][mic]",
                             "[0:a][sc]sidechaincompress=threshold=0.02:ratio=4:attack=50:release=500[ducked]",
                             "[ducked][mic]amix=inputs=2:duration=longest:weights=0.7 1[out]">>
                      /\ lj[k][2].filter =
                           <<"[0:a][1:a]amix=inputs=2:duration=longest:weights=0.7 1[out]">>
            /\ (Len(li) = Len(lj) /\ render[i].pc = render[j].pc) =>
                 /\ render[i].tracks = render[j].tracks
                 /\ render[i].status = render[j].status
            /\ (render[i].pc = "returned" /\ render[j].pc = "returned") =>
                 LET e == render[i].rec[1]
                     f == render[j].rec[1]
                 IN /\ e.duration = f.duration
                    /\ e.hasMic = f.hasMic
                    /\ e.hasSystemAudio = f.hasSystemAudio
                    /\ e.format = f.format
                    /\ e.tracks = f.tracks

\* Two renders with microphone that differ in duckSystemAudio only have both
\* registered their entries.
C13_Witness ==
    \E i, j \in Ids :
        /\ Twins(i, j)
        /\ render[i].duck
        /\ render[i].mic
        /\ render[i].pc = "returned"
        /\ render[j].pc = "returned"

Stages(i) == {render[i].log[k][1] : k \in 1..Len(render[i].log)}

C14_NothingProduced ==
    \A i \in Ids :
        (RenderInFlight(i) /\ ~render[i].sys) =>
            /\ render[i].pc \in {"writeSystem", "catch"}
            /\ Stages(i) \subseteq {"mkdir", "noSystemAudio"}
            /\ disk[i].files = {}
            /\ i \notin IndexIds(Index)
            /\ "noSystemAudio" \in Stages(i) => (render[i].pc = "catch" /\ render[i].status = 400)

C14_Returned ==
    \A i \in Ids :
        (render[i].pc = "catch" /\ ~render[i].sys /\ render'[i].pc # "catch") =>
            /\ render'[i].pc = "failed"
            /\ ~disk'[i].exists
            /\ i \notin IndexIds(Index')
            /\ "noSystemAudio" \in Stages(i) => render'[i].status = 400

C15_OnlyArtifactsAtRegister ==
    \A i \in Ids :
        /\ render[i].pc = "register" =>
             /\ disk[i].exists
             /\ disk[i].files = {render[i].tracks[r] : r \in DOMAIN render[i].tracks}
        /\ (RenderInFlight(i) /\ i \in IndexIds(Index)) => render[i].pc = "returned"

\* C16: every read of the index file gets the whole serialization of an index:
\* while nothing damages the file, the load of every pass succeeds.
C16_ReadersSeeWholeIndex ==
    sweep.pc # "idle" => sweep.loaded

Damaged == indexFile.kind \in {"corrupt", "missing"}

\* Reads of a damaged index file: the listing is empty, no id is found.
C17_Reads ==
    Damaged =>
        /\ LoadRecordings(indexFile) = <<>>
        /\ \A id \in Ids : GetRecording(indexFile, id) = <<>>

\* deleteRecording and createRecording called on a damaged index file.
C17_Mutations ==
    Damaged =>
        /\ \A c \in Callers :
             (del[c].pc = "idle" /\ del'[c].pc # "idle") =>
                 /\ del'[c].pc = "ret"
                 /\ del'[c].ret = FALSE
                 /\ disk' = disk
                 /\ Index' = <<>>
        /\ \A i \in Ids :
             /\ (render[i].pc = "register" /\ render'[i].pc # "register") =>
                  (render'[i].pc = "save" /\ render'[i].index = <<>>)
             /\ (render[i].pc = "save" /\ render'[i].pc = "returned") =>
                  Index' = render[i].rec

\* cleanupExpiredRecordings called on a damaged index file goes on as it does
\* on the file of an empty index.
C17_SweepAsOnEmpty ==
    (Damaged /\ sweep.pc = "idle" /\ sweep'.pc # "idle") =>
        LET empty == LoadRecordingsInternal(JsonFile(<<>>)) IN
        /\ sweep'.index = empty.index
        /\ sweep'.toDelete = ToDelete(empty.index, now)
        /\ sweep'.loaded = empty.loadedFromDisk
        /\ sweep'.pc = AfterExpire(ToDelete(empty.index, now), empty.loadedFromDisk)

\* cleanupExpiredRecordings called on a damaged index file finds nothing
\* expired and does not throw; on a missing file it goes on to the orphan scan
\* as on an empty index, on an unparsable file it returns without the scan.
C17_SweepNoScanOnCorrupt ==
    (Damaged /\ sweep.pc = "idle" /\ sweep'.pc # "idle") =>
        /\ sweep'.index = <<>>
        /\ sweep'.toDelete = <<>>
        /\ sweep'.pc = (IF indexFile.kind = "corrupt" THEN "done" ELSE "readdir")
        /\ sweep'.loaded = (indexFile.kind = "missing")

C19_NotFoundNeverFailure ==
    delReq.pc = "responded" =>
        /\ delReq.outcome # "false"
        /\ delReq.status = 404 <=> delReq.outcome = ""

\* C18: a pass that throws fails no request: every listing request gets its
\* listing.
C18_SweepFailureSwallowed ==
    listReq.pc = "responded" => listReq.status = 200

\* C20: the listing holds every entry of the index whose expiresAt is later
\* than the request's now, and no entry whose expiresAt is at or before it.
C20_ListsUnexpired ==
    (listReq.pc = "responded" /\ listReq.status = 200) =>
        LET listed == Entries(listReq.recordings) IN
        /\ listed \subseteq Entries(Index)
        /\ \A e \in Entries(Index) : ExpiresAt(e) > listReq.now => e \in listed
        /\ \A e \in listed : ~(ExpiresAt(e) <= listReq.now)

\* The ffmpeg commands run so far by render i.
EncodeCommands(i) ==
    {render[i].log[k][2] : k \in {n \in 1..Len(render[i].log) :
                                     render[i].log[n][1] \in {"encSystem", "encMic", "encMixed"}}}

\* C28: every ffmpeg run of a render encodes with the profile of the requested
\* format (mp3: libmp3lame at 320k, aac: aac at 256k, opus: libopus at 256k),
\* with 2 channels at 48000 Hz, into the file of its role; the runs of one render
\* all use the same profile.
C28_CodecProfile ==
    \A i \in Ids :
        RenderInFlight(i) =>
            /\ \A c \in EncodeCommands(i) :
                 /\ render[i].format = "mp3" => c.codec = <<"libmp3lame", 320>>
                 /\ render[i].format = "aac" => c.codec = <<"aac", 256>>
                 /\ render[i].format = "opus" => c.codec = <<"libopus", 256>>
                 /\ c.ac = 2
                 /\ c.ar = 48000
                 /\ c.out[1] \in RoleSet
            /\ \A c, d \in EncodeCommands(i) : c.codec = d.codec

\* A render with microphone in opus has run its three encodes.
C28_Witness ==
    \E i \in Ids :
        /\ render[i].format = "opus"
        /\ render[i].pc = "rmInputs"
        /\ {c.out[1] : c \in EncodeCommands(i)} = RoleSet

\* The index without the entries of the given id, the others in their order.
Without(index, id) == SelectSeq(index, LAMBDA e : e.id # id)

\* The call of deleteRecording(id): an id of the loaded index goes on to the
\* removal of its directory with index and directories untouched; any other id
\* returns false.
C30_Call ==
    \A c \in Callers :
        (del[c].pc = "idle" /\ del'[c].pc # "idle") =>
            /\ Index' = Index
            /\ disk' = disk
            /\ del'[c].id \in IndexIds(Index) => del'[c].pc = "rm"
            /\ del'[c].id \notin IndexIds(Index) => (del'[c].pc = "ret" /\ ~del'[c].ret)

\* The removal of the directory, before the index is touched: whether it removes
\* the directory, finds none or fails, the call goes on to the save.
C30_Remove ==
    \A c \in Callers :
        del[c].pc = "rm" =>
            /\ Index' = Index
            /\ del'[c].pc \in {"rm", "save"}
            /\ \A id \in Ids : id # del[c].id => disk'[id] = disk[id]
            /\ disk'[del[c].id] \in {disk[del[c].id], NoDir}

\* The save: the index loses the entry of the id and no other, and the call
\* returns true; or the save fails, the index is as before and the call throws.
C30_Persist ==
    \A c \in Callers :
        (del[c].pc = "save" /\ del'[c].pc # "save") =>
            /\ disk' = disk
            /\ \/ /\ del'[c].pc = "ret"
                  /\ del'[c].ret
                  /\ del[c].id \in IndexIds(Index)
                  /\ Index' = Without(Index, del[c].id)
                  /\ Len(Index') = Len(Index) - 1
               \/ /\ del'[c].pc = "threw"
                  /\ Index' = Index

\* C30: deleteRecording(id) for an id of the index first removes the directory,
\* going on when there is none or the removal fails, then removes that entry and
\* no other from the index and saves it; when it returns, it returns true for an
\* id the loaded index held and false for any other.
C30_DeleteRecording == [][C30_Call /\ C30_Remove /\ C30_Persist]_vars

\* deleteRecording has returned true though the removal of the directory failed,
\* and the index still holds the other entry.
C30_Witness ==
    /\ del["api"].pc = "ret"
    /\ del["api"].ret
    /\ disk[del["api"].id].exists
    /\ del["api"].id \notin IndexIds(Index)
    /\ Len(Index) = 1

\* The streaming handler has answered a request whose file was there.
Streamed ==
    /\ getReq.pc = "responded"
    /\ getReq.route = "stream"
    /\ getReq.resp.status \in {200, 206, 416}

\* The bytes of a file of n bytes at the offsets from..to, in order.
BytesBetween(n, from, to) ==
    LET last == IF to < n - 1 THEN to ELSE n - 1
    IN [k \in 1..(IF last < from THEN 0 ELSE last - from + 1) |-> from + k - 1]

\* C21: a streaming request with Range: bytes=start-[end] for a file of n bytes
\* is answered 416 with Content-Range: bytes */n exactly when start >= n, and
\* else 206 with a Content-Range and the bytes at the offsets start..end, the
\* end being n - 1 when none is given; without a Range header the answer is 200
\* with the n bytes of the file.
C21_ByteRanges ==
    Streamed =>
        LET n == getReq.size
            header == getReq.header
            resp == getReq.resp
        IN
        /\ (header.present /\ header.unit = "bytes") =>
              /\ resp.status = 416 <=> header.start >= n
              /\ resp.status = 416 =>
                    (resp.range = <<"bytes */", ToString(n)>> /\ resp.body = <<>>)
              /\ resp.status # 416 =>
                    /\ resp.status = 206
                    /\ resp.range # <<>>
                    /\ resp.range[1] = "bytes "
                    /\ resp.range[2] = ToString(header.start)
                    /\ resp.range[6] = ToString(n)
                    /\ resp.body =
                         BytesBetween(n, header.start,
                                      IF header.end = <<>> THEN n - 1 ELSE header.end[1])
                    /\ resp.length = Len(resp.body)
        /\ ~header.present =>
              /\ resp.status = 200
              /\ resp.range = <<>>
              /\ resp.body = BytesBetween(n, 0, n - 1)
              /\ resp.length = n

\* A range from the second byte to a byte before the last has been answered
\* with 206.
C21_Witness ==
    /\ Streamed
    /\ getReq.resp.status = 206
    /\ getReq.header.start >= 1
    /\ getReq.header.end # <<>>
    /\ getReq.header.end[1] < getReq.size - 1
    /\ getReq.resp.body # <<>>

\* The entry a GET is about, as a sequence of length 1, or <<>>.
Asked == GetRecording(indexFile, getReq.id)

\* A GET for a role the entry holds, whose file is there, has been answered.
C29_Produced ==
    /\ getReq.pc = "responded"
    /\ Asked # <<>>
    /\ getReq.track \in DOMAIN Asked[1].tracks
    /\ TrackFileExists([getReq EXCEPT !.format = Asked[1].format])

\* C29: a retrieval of a role the entry holds is answered with the file
\* (200, 206, or 416 for a range past its end), and the answer carries the
\* content type of the entry's format (audio/mpeg for mp3, audio/mp4 for aac,
\* audio/webm for opus); the file name of a download ends in the canonical
\* extension of the format (mp3, m4a, webm).
C29_TypeAndExtension ==
    C29_Produced =>
        LET format == Asked[1].format
            resp == getReq.resp
        IN
        /\ resp.status \in {200, 206, 416}
        /\ resp.status \in {200, 206} =>
              /\ format = "mp3" => resp.type = "audio/mpeg"
              /\ format = "aac" => resp.type = "audio/mp4"
              /\ format = "opus" => resp.type = "audio/webm"
        /\ getReq.route = "download" =>
              /\ resp.status = 200
              /\ Len(resp.disposition) = 7
              /\ resp.disposition[2] = getReq.track
              /\ format = "mp3" => resp.disposition[6] = "mp3"
              /\ format = "aac" => resp.disposition[6] = "m4a"
              /\ format = "opus" => resp.disposition[6] = "webm"

\* The mixed track of an opus recording has been downloaded.
C29_Witness ==
    /\ C29_Produced
    /\ getReq.route = "download"
    /\ getReq.track = "mixed"
    /\ Asked[1].format = "opus"
    /\ getReq.resp.status = 200

\* The preview runs and the chain was rebuilt for the effects as they are.
Previewing == preview.isPreviewing /\ preview.dirty = {}

\* The connections of the running preview, and where a node's output goes.
Graph == preview.contexts[preview.previewAudioContext].edges
Outputs(n) == {e[2] : e \in {f \in Graph : f[1] = n}}
Connected(n) == \E e \in Graph : e[1] = n \/ e[2] = n

Stage == {"highpass", "noiseGate", "boost", "compressor"}
Rank(stage) ==
    CASE stage = "highpass" -> 1
      [] stage = "noiseGate" -> 2
      [] stage = "boost" -> 3
      [] stage = "compressor" -> 4

\* The stages the effects ask for.
Asks(c) ==
    {stage \in Stage :
        \/ stage = "highpass" /\ c.highpass
        \/ stage = "noiseGate" /\ c.noiseGate
        \/ stage = "boost" /\ c.boost > 10
        \/ stage = "compressor" /\ c.compressor}

\* The stages asked for that come after the given rank.
Later(c, rank) == {stage \in Asks(c) : Rank(stage) > rank}

\* Where the output of a node of the main path must go: to the next stage asked
\* for, or from the last one to the reverb send or to the destination.
Onward(c, rank) ==
    IF Later(c, rank) # {}
    THEN {Node(CHOOSE stage \in Later(c, rank) :
                 \A other \in Later(c, rank) : Rank(stage) <= Rank(other))}
    ELSE IF c.echo THEN {Node("reverbDry"), Node("reverbInput")}
    ELSE {Destination}

ReverbNodes ==
    {Node(name) : name \in {"reverbInput", "reverbOutput", "reverbDry", "reverbWet",
                             "reverbFilter"}}
    \cup {<<name, i>> : name \in {"reverbDelays", "reverbGains"}, i \in Taps}

\* C22: after rebuildPreviewChain with the effects c, the path from the source
\* goes through the enabled stages and no other, in the order high-pass, noise
\* gate, boost, compressor, reverb send: a stage is connected exactly when it is
\* enabled (boost: when c.boost > 1.0, and then with gain c.boost), the output of
\* the source and of each enabled stage goes to the next enabled stage and
\* nowhere else, the last goes to the reverb when c.echo and else to the
\* destination, and the reverb nodes are connected exactly when c.echo.
C22_EnabledStagesInOrder ==
    Previewing =>
        LET c == preview.micEffects IN
        /\ \A stage \in Stage : Connected(Node(stage)) <=> stage \in Asks(c)
        /\ Outputs(Source) = Onward(c, 0)
        /\ \A stage \in Asks(c) : Outputs(Node(stage)) = Onward(c, Rank(stage))
        /\ c.boost > 10 => preview.contexts[preview.previewAudioContext].boost = c.boost
        /\ \A n \in ReverbNodes : Connected(n) <=> c.echo
        /\ c.echo =>
              /\ Outputs(Node("reverbDry")) = {Destination}
              /\ Outputs(Node("reverbInput")) = {<<"reverbDelays", i>> : i \in Taps}
              /\ \A i \in Taps :
                    /\ Outputs(<<"reverbDelays", i>>) = {<<"reverbGains", i>>}
                    /\ Outputs(<<"reverbGains", i>>) = {Node("reverbOutput")}
              /\ Outputs(Node("reverbOutput")) = {Node("reverbFilter")}
              /\ Outputs(Node("reverbFilter")) = {Node("reverbWet")}
              /\ Outputs(Node("reverbWet")) = {Destination}
        /\ Outputs(Destination) = {}

\* The preview runs with every stage enabled.
C22_Witness ==
    /\ Previewing
    /\ Asks(preview.micEffects) = Stage
    /\ preview.micEffects.echo
    /\ preview.micEffects.boost = 15

\* C23: with every toggle off and boost 1.0, the source is connected to the
\* destination and to nothing else after rebuildPreviewChain, and neither the
\* boost node nor any node of the reverb (or any other stage) is connected.
C23_DryPassthrough ==
    (/\ Previewing
     /\ ~preview.micEffects.highpass
     /\ ~preview.micEffects.noiseGate
     /\ ~preview.micEffects.compressor
     /\ ~preview.micEffects.echo
     /\ preview.micEffects.boost = 10) =>
        /\ Graph = {<<Source, Destination>>}
        /\ ~Connected(Node("boost"))
        /\ \A n \in ReverbNodes : ~Connected(n)

\* The preview runs with every toggle off and boost 1.0.
C23_Witness ==
    /\ Previewing
    /\ preview.micEffects = NoPreview.micEffects
    /\ Graph = {<<Source, Destination>>}

\* The same state of the component, whatever the count of the calls of stop.
SameButCount(p, q) == [p EXCEPT !.stops = 0] = [q EXCEPT !.stops = 0]

\* C25: in every state, stopMicPreview leaves no stream, context, source or node
\* referenced and isPreviewing false, with the stream that was referenced
\* released and the context closed; a second call leaves the state of the first,
\* and a call after a stop with no start since leaves the state as it is.
C25_StopIdempotent ==
    LET once == StopMicPreview(preview)
        twice == StopMicPreview(once)
    IN
    /\ once.previewStream = 0
    /\ once.previewAudioContext = 0
    /\ once.previewSource = 0
    /\ once.previewNodes = 0
    /\ ~once.isPreviewing
    /\ preview.previewStream # 0 => once.streams[preview.previewStream] = 0
    /\ preview.previewAudioContext # 0 => ~once.contexts[preview.previewAudioContext].open
    /\ SameButCount(twice, once)
    /\ preview.stops >= 1 => SameButCount(once, preview)

\* stopMicPreview has been called twice in a row after a preview has run.
C25_Witness ==
    /\ preview.mounted
    /\ preview.stops = 2
    /\ preview.lastPreviewMicId # 0

\* C24: once stopMicPreview has been called and no start has been requested
\* since, no microphone stream is live, no AudioContext is open and isPreviewing
\* is false, also when the stop came while a startMicPreview awaited its stream.
C24_NoAudioAfterStop ==
    preview.stopped =>
        /\ LiveStreams(preview) = {}
        /\ OpenContexts(preview) = {}
        /\ ~preview.isPreviewing

\* C26: at most one startMicPreview is in flight, at most one stream is live and
\* at most one context open, and these are the ones the component refers to.
C26_OnePreviewAtATime ==
    /\ InFlight(preview) <= 1
    /\ LiveStreams(preview) \subseteq {preview.previewStream}
    /\ OpenContexts(preview) \subseteq {preview.previewAudioContext}

\* C27: after device selections of which one was made while the preview ran,
\* when no start is awaited any more and no $effect is waiting, the stream of the
\* running preview is the one acquired for the selected device.
C27_StreamOfSelectedDevice ==
    (/\ preview.mounted
     /\ preview.changedWhileOn
     /\ preview.isPreviewing
     /\ InFlight(preview) = 0
     /\ preview.dirty = {}) =>
        preview.streams[preview.previewStream] = preview.selectedMicId

\* C31: no sweep removes the directory of a render in progress: from the mkdir
\* of the handler to the return of createRecording the directory exists, and
\* when the entry is registered the files of its tracks are in it.
C31_SweepSparesRenderInProgress ==
    \A i \in Ids :
        /\ (RenderInFlight(i) /\ render[i].pc \notin {"catch", "returned"}) => disk[i].exists
        /\ render[i].pc = "save" =>
              \A role \in DOMAIN render[i].tracks :
                  render[i].tracks[role] \in disk[i].files

\* C32: every directory the orphan scan removes is named by no id of an index
\* that was loaded from disk: the index the scan compares with is never the
\* empty fallback of a failed load, the reload of the pass included.
C32_ScanComparesWithLoadedIndex ==
    [][(sweep.pc = "scan" /\ disk' # disk) =>
          /\ LoadRecordingsInternal(indexFile).loadedFromDisk
          /\ \A d \in Ids :
                (disk[d].exists /\ ~disk'[d].exists) => d \notin IndexIds(Index)]_vars

\* The names of the directories under data/recordings.
Directories == {d \in Ids : disk[d].exists}

\* When a pass that loaded the index has run to its end, every directory under
\* data/recordings is that of an id of the index (no orphan is left), and the
\* pass removed no directory of an entry that remains.
C33_DirectoriesAreIndexed ==
    (sweep.pc = "done" /\ sweep.loaded) =>
        /\ Directories \subseteq IndexIds(Index)
        /\ sweep.removed \cap IndexIds(Index) = {}

Overdue(i) ==
    \E e \in Entries(Index) : e.id = i /\ ExpiresAt(e) < now

\* Neither an entry nor a directory of id i is left.
Swept(i) == i \notin IndexIds(Index) /\ ~disk[i].exists

\* Every recording whose expiresAt lies in the past is eventually gone from the
\* index and from the disk.
C34_EventuallySwept == \A i \in Ids : Overdue(i) ~> Swept(i)

\* A recording that deleteRecording has removed does not come back.
C34_StaysSwept ==
    [][\A i \in Ids : (i \in deleted /\ Swept(i)) => Swept(i)']_vars

\* C34: with a pass at process start and at every tick of the hour, and no
\* failure in a pass, every recording whose expiresAt lies in the past is
\* eventually absent from the index and from the disk, and stays absent.
C34_ExpiredGoAndStayGone == C34_EventuallySwept /\ C34_StaysSwept

\* The graph rebuildPreviewChain makes of a context in which nothing is
\* connected yet.
FromScratch(p) ==
    RebuildPreviewChain(
        [p EXCEPT !.contexts[p.previewAudioContext].edges = {}]
    ).contexts[p.previewAudioContext].edges

\* The state with other effects.
WithEffects(p, effects) == [p EXCEPT !.micEffects = effects]

\* C35: while previewing, after any sequence of changes of the effects, the
\* connections are those rebuildPreviewChain makes from scratch with the
\* current effects, whatever was connected before: no connection of an earlier
\* configuration is left, the graph made for any effects does not depend on the
\* graph before, and a second rebuild with the same effects changes nothing.
C35_RebuildHistoryIndependent ==
    (Previewing /\ InFlight(preview) = 0) =>
        /\ Graph = FromScratch(preview)
        /\ \A effects \in MicEffects :
              LET q == WithEffects(preview, effects) IN
              /\ RebuildPreviewChain(q).contexts[q.previewAudioContext].edges = FromScratch(q)
              /\ RebuildPreviewChain(RebuildPreviewChain(q)).contexts
                    = RebuildPreviewChain(q).contexts

\* A rebuild has taken connections of an earlier configuration away, and the
\* preview runs on the graph of the current one.
C35_Witness ==
    /\ Previewing
    /\ InFlight(preview) = 0
    /\ preview.contexts[preview.previewAudioContext].dropped
    /\ Graph = FromScratch(preview)
    /\ Graph # {<<Source, Destination>>}

\* The node the main path ends at: the last stage the effects ask for, or the
\* source when they ask for none.
LastStage(c) ==
    IF Asks(c) = {} THEN Source
    ELSE Node(CHOOSE stage \in Asks(c) : \A other \in Asks(c) : Rank(other) <= Rank(stage))

\* The context of the running preview.
Context == preview.contexts[preview.previewAudioContext]

\* C36: while previewing with echo, the last enabled stage feeds the dry gain
\* (0.7) and the reverb input and not the destination; the dry gain goes to the
\* destination; the reverb input feeds each of the 8 delays, each delay its own
\* gain, each gain the summing bus, the bus the 4 kHz low-pass, the low-pass the
\* wet gain (0.5), the wet gain the destination.  Without echo the last stage
\* goes to the destination and no reverb node is connected.
C36_ReverbSend ==
    (Previewing /\ InFlight(preview) = 0) =>
        LET last == LastStage(preview.micEffects) IN
        IF preview.micEffects.echo
        THEN /\ Outputs(last) = {Node("reverbDry"), Node("reverbInput")}
             /\ <<last, Destination>> \notin Graph
             /\ Outputs(Node("reverbDry")) = {Destination}
             /\ Context.reverbDry = 7
             /\ Outputs(Node("reverbInput")) = {<<"reverbDelays", i>> : i \in Taps}
             /\ Cardinality(Outputs(Node("reverbInput"))) = 8
             /\ \A i \in Taps :
                   /\ Outputs(<<"reverbDelays", i>>) = {<<"reverbGains", i>>}
                   /\ Outputs(<<"reverbGains", i>>) = {Node("reverbOutput")}
             /\ Outputs(Node("reverbOutput")) = {Node("reverbFilter")}
             /\ Context.reverbFilter = [type |-> "lowpass", frequency |-> 4000]
             /\ Outputs(Node("reverbFilter")) = {Node("reverbWet")}
             /\ Context.reverbWet = 5
             /\ Outputs(Node("reverbWet")) = {Destination}
        ELSE /\ Outputs(last) = {Destination}
             /\ \A n \in ReverbNodes : ~Connected(n)

\* The preview runs with echo behind a stage: the reverb is fed by that stage.
C36_Witness ==
    /\ Previewing
    /\ InFlight(preview) = 0
    /\ preview.micEffects.echo
    /\ preview.micEffects.compressor
    /\ <<Node("compressor"), Node("reverbInput")>> \in Graph
    /\ Context.reverbWet = 5

\* The handler of a GET has run up to its first await or its first throw.
GetArrives == getReq.pc = "idle" /\ getReq'.pc # "idle"

\* The entry the request names, as the index holds it when the request comes.
Wanted == GetRecording(indexFile, getReq'.id)

\* The request is answered with the error alone, before any file is looked at.
Rejected(status) ==
    /\ getReq'.pc = "responded"
    /\ getReq'.resp = [NoResponse EXCEPT !.status = status]
    /\ Index' = Index
    /\ disk' = disk

\* C37: a download or streaming request for a role outside mic, system, mixed
\* is answered 400; for one of these roles and an id the index does not hold,
\* 404; for a role the entry's tracks do not hold, 404.  Each of these answers
\* is given at once and leaves the index and the files as they were.
C37_RetrievalErrors ==
    [][GetArrives =>
          /\ getReq'.track \notin RoleSet => Rejected(400)
          /\ (getReq'.track \in RoleSet /\ Wanted = <<>>) => Rejected(404)
          /\ (/\ getReq'.track \in RoleSet
              /\ Wanted # <<>>
              /\ getReq'.track \notin DOMAIN Wanted[1].tracks) => Rejected(404)]_vars

\* With a recording that has no microphone in the index, a request has been
\* answered 404 for its mic track.
C37_Witness ==
    /\ getReq.pc = "responded"
    /\ getReq.resp.status = 404
    /\ getReq.track = "mic"
    /\ getReq.id \in IndexIds(Index)
    /\ disk[getReq.id].exists

\* loadRecordings gives an index whose recordings is a list.
C38_LoadedIndexHasList == HasRecordings(LoadRecordings(indexFile))

\* No operation fails at its first use of the index it loaded: getRecording in
\* the GET handlers, deleteRecording, the pass, and the listing.
C38_NoFailureOnLoadedIndex ==
    [][/\ getReq.pc = "idle" => getReq'.resp.status # 500
       /\ \A c \in Callers : del[c].pc = "idle" => del'[c].pc # "threw"
       /\ sweep.pc = "idle" => sweep'.pc # "threw"
       /\ listReq.pc = "load" => listReq'.status # 500]_vars

\* C38: whatever the index file holds (nothing, text that does not parse, or
\* JSON that is no object with a recordings list), loadRecordings returns an
\* index whose recordings is a list, and getRecording, deleteRecording, the
\* listing and the pass do not fail on it.
C38_AnyFileLoadsAsIndex == []C38_LoadedIndexHasList /\ C38_NoFailureOnLoadedIndex

\* The number a field of Content-Range shows.
Shown(field) == CHOOSE n \in 0..(MaxSize + 1) : ToString(n) = field

\* C39: in every 206 response of the streaming handler, Content-Range: bytes
\* start-end/size names a range inside the file that is the range of the body:
\* start <= end <= size - 1, size is the size of the file, and Content-Length
\* is end - start + 1.
C39_ContentRangeMatchesBody ==
    (Streamed /\ getReq.resp.status = 206) =>
        LET resp == getReq.resp
            start == Shown(resp.range[2])
            end == Shown(resp.range[4])
            size == Shown(resp.range[6])
        IN
        /\ size = getReq.size
        /\ start <= end
        /\ end <= size - 1
        /\ resp.length = end - start + 1
        /\ Len(resp.body) = resp.length

\* C40: while recorder.state is 'recording' no preview is on: isPreviewing is
\* false, no stream of the preview is live and no AudioContext of the preview
\* is open.
C40_NoPreviewWhileRecording ==
    preview.state = "recording" =>
        /\ ~preview.isPreviewing
        /\ LiveStreams(preview) = {}
        /\ OpenContexts(preview) = {}

====
